---- MODULE Spec2Model ----
(***************************************************************************)
(* A model of typus: the grammar container (rule map, combinators,         *)
(* epsilon elimination), the type-graph reflector and the domain           *)
(* generator (Head/Tail/Pipeline).                                         *)
(*                                                                         *)
(* Symbols are records tagged with the class name of src/typus/core.py.    *)
(* A Python dict is a sequence of entries in insertion order.  A Python    *)
(* str is a TLA+ string; a str passed where a Symbol is also accepted is   *)
(* wrapped as Str(v), and None is the record None.                         *)
(***************************************************************************)
EXTENDS Integers, Sequences, FiniteSets, TLC

VARIABLES
    rules,      \* Grammar.rules, in insertion order: <<[name, body], ...>>
    g_prev,     \* the rule map before the last container operation
    g_last,     \* the last container operation and its arguments
    g_ret,      \* what the last container operation returned or raised
    domain,     \* the classes and functions that are reflected
    entrypoints,\* the arguments of build() / reflect()
    pc,         \* where build() is: [at, i]
    r_nodes,    \* Reflector._nodes, in insertion order
    r_queue,    \* Reflector._queue
    nodes,      \* the list reflect() returned to build()
    cache,      \* DomainGenerator._cache, in insertion order
    d_nodes,    \* Domain.nodes (domain/core.py), in insertion order
    _backends   \* Grammar._backends, in insertion order: <<[name, body], ...>>

gvars == <<rules, g_prev, g_last, g_ret>>

dvars == <<domain, entrypoints, pc, r_nodes, r_queue, nodes, cache>>

vars == <<rules, g_prev, g_last, g_ret,
          domain, entrypoints, pc, r_nodes, r_queue, nodes, cache, _backends,
          d_nodes>>

-----------------------------------------------------------------------------
(* Symbol IR                                                               *)

Terminal(value, is_regex) ==
    [tag |-> "Terminal", value |-> value, is_regex |-> is_regex]

NonTerminal(name) == [tag |-> "NonTerminal", name |-> name]

Sequence(items) == [tag |-> "Sequence", items |-> items]

Choice(options) == [tag |-> "Choice", options |-> options]

Epsilon == [tag |-> "Epsilon"]

Str(v) == [tag |-> "str", value |-> v]

None == [tag |-> "None"]

ValueError == [tag |-> "ValueError"]

\* isinstance(x, str)
IsStr(x) == x.tag = "str"

\* Python truthiness of an argument that is None, a str or a Symbol: the
\* Symbol classes define neither __bool__ nor __len__, so a Symbol is true.
Truthy(x) ==
    CASE x.tag = "None" -> FALSE
      [] x.tag = "str"  -> x.value # ""
      [] OTHER          -> TRUE

\* Symbol.__add__: a + b builds a Sequence; a left operand that is already
\* a Sequence is extended, so that a + b + c is Sequence(a, b, c).
Plus(a, b) ==
    LET rhs == IF IsStr(b) THEN Terminal(b.value, FALSE) ELSE b
    IN  IF a.tag = "Sequence" THEN Sequence(Append(a.items, rhs))
        ELSE Sequence(<<a, rhs>>)

\* Symbol.__or__
Or(a, b) ==
    IF a.tag = "Choice" THEN Choice(Append(a.options, b))
    ELSE Choice(<<a, b>>)

-----------------------------------------------------------------------------
(* The rule map as an ordered dict                                         *)

Keys(d) == {d[i].name : i \in 1..Len(d)}

HasKey(d, k) == k \in Keys(d)

IndexOf(d, k) == CHOOSE i \in 1..Len(d) : d[i].name = k

Get(d, k) == d[IndexOf(d, k)].body

\* d[k] = v: an existing key keeps its position, a new key goes last
Put(d, k, v) ==
    IF HasKey(d, k)
    THEN [d EXCEPT ![IndexOf(d, k)] = [name |-> k, body |-> v]]
    ELSE Append(d, [name |-> k, body |-> v])

\* the rule map as a name-to-body mapping, insertion order forgotten
AsMap(d) == [k \in Keys(d) |-> Get(d, k)]

-----------------------------------------------------------------------------
(* Grammar: naming of generated rules                                      *)

AlnumChars ==
    {"a","b","c","d","e","f","g","h","i","j","k","l","m","n","o","p","q",
     "r","s","t","u","v","w","x","y","z",
     "A","B","C","D","E","F","G","H","I","J","K","L","M","N","O","P","Q",
     "R","S","T","U","V","W","X","Y","Z",
     "0","1","2","3","4","5","6","7","8","9"}

CharAt(text, i) == SubSeq(text, i, i)

\* re.sub(r"[^a-zA-Z0-9]", "_", text)
RECURSIVE ReplaceNonAlnum(_)
ReplaceNonAlnum(text) ==
    IF Len(text) = 0 THEN ""
    ELSE (IF CharAt(text, 1) \in AlnumChars THEN CharAt(text, 1) ELSE "_")
         \o ReplaceNonAlnum(SubSeq(text, 2, Len(text)))

\* re.sub(r"__+", "_", text)
RECURSIVE CollapseUnderscores(_)
CollapseUnderscores(text) ==
    IF Len(text) < 2 THEN text
    ELSE IF CharAt(text, 1) = "_" /\ CharAt(text, 2) = "_"
         THEN CollapseUnderscores(SubSeq(text, 2, Len(text)))
         ELSE CharAt(text, 1) \o CollapseUnderscores(SubSeq(text, 2, Len(text)))

\* text.strip("_")
RECURSIVE StripUnderscores(_)
StripUnderscores(text) ==
    IF Len(text) = 0 THEN text
    ELSE IF CharAt(text, 1) = "_"
         THEN StripUnderscores(SubSeq(text, 2, Len(text)))
    ELSE IF CharAt(text, Len(text)) = "_"
         THEN StripUnderscores(SubSeq(text, 1, Len(text) - 1))
    ELSE text

_sanitize(text) ==
    StripUnderscores(CollapseUnderscores(ReplaceNonAlnum(text)))

\* "_or_".join(parts)
RECURSIVE JoinOr(_)
JoinOr(parts) ==
    IF Len(parts) = 0 THEN ""
    ELSE IF Len(parts) = 1 THEN parts[1]
    ELSE parts[1] \o "_or_" \o JoinOr(Tail(parts))

RECURSIVE _get_name(_)
_get_name(symbol) ==
    CASE symbol.tag = "NonTerminal" -> symbol.name
      [] symbol.tag = "Terminal" ->
            IF symbol.is_regex THEN "regex" ELSE _sanitize(symbol.value)
      [] symbol.tag = "Choice" ->
            JoinOr([i \in 1..Len(symbol.options) |-> _get_name(symbol.options[i])])
      [] OTHER -> "item"

-----------------------------------------------------------------------------
(* Grammar: combinators                                                    *)

\* a str argument becomes a literal Terminal
AsSymbol(x) == IF IsStr(x) THEN Terminal(x.value, FALSE) ELSE x

regex(pattern) == Terminal(pattern, TRUE)

maybe(symbol) == Choice(<<AsSymbol(symbol), Epsilon>>)

\* step 1 of some(): the name of the rule to define
SomeName(symbol, sep, name) ==
    IF name # None THEN name.value
    ELSE LET base == "some_" \o _get_name(AsSymbol(symbol))
         IN  IF Truthy(sep) /\ _get_name(AsSymbol(sep)) # ""
             THEN base \o "_sep_" \o _get_name(AsSymbol(sep))
             ELSE base

\* the recursive branch ending in the symbol instead of the self-reference
SomeBodySelfless(symbol, sep, ref) ==
    IF Truthy(sep)
    THEN Choice(<<symbol, Plus(Plus(symbol, sep), symbol)>>)
    ELSE Choice(<<symbol, Plus(symbol, symbol)>>)

\* step 3 of some(): the body of the recursive rule.  A str separator has
\* been made a Terminal in step 1 when the name was derived; otherwise the
\* + operator does it.
SomeBody(symbol, sep, ref) ==
    IF Truthy(sep)
    THEN Choice(<<symbol, Plus(Plus(symbol, sep), ref)>>)
    ELSE Choice(<<symbol, Plus(symbol, ref)>>)

\* some() without its uniqueness check
someOverwrite(rs, symbol, sep, name) ==
    LET n == SomeName(symbol, sep, name)
    IN  [rules |-> Put(rs, n, SomeBody(AsSymbol(symbol), sep, NonTerminal(n))),
         ret   |-> NonTerminal(n)]

\* the uniqueness check made only for a derived name
someCheckDerivedOnly(rs, symbol, sep, name) ==
    LET n == SomeName(symbol, sep, name)
    IN  IF name = None /\ HasKey(rs, n)
        THEN [rules |-> rs, ret |-> ValueError]
        ELSE [rules |-> Put(rs, n, SomeBody(AsSymbol(symbol), sep, NonTerminal(n))),
              ret   |-> NonTerminal(n)]

\* some(symbol, sep, name) on rule map rs: the rule map after the call and
\* what the call returns (ValueError when it raises)
some(rs, symbol, sep, name) ==
    LET n == SomeName(symbol, sep, name)
    IN  IF HasKey(rs, n)
        THEN [rules |-> rs, ret |-> ValueError]
        ELSE [rules |-> Put(rs, n, SomeBody(AsSymbol(symbol), sep, NonTerminal(n))),
              ret   |-> NonTerminal(n)]

\* any(symbol, sep, name) = maybe(some(symbol, sep, name))
any(rs, symbol, sep, name) ==
    LET r == some(rs, symbol, sep, name)
    IN  IF r.ret = ValueError THEN r
        ELSE [rules |-> r.rules, ret |-> maybe(r.ret)]

-----------------------------------------------------------------------------
(* Grammar: cleanup (epsilon elimination)                                  *)

RECURSIVE _is_symbol_epsilon(_, _)
_is_symbol_epsilon(sym, eps_set) ==
    CASE sym.tag = "Epsilon" -> TRUE
      [] sym.tag = "NonTerminal" -> sym.name \in eps_set
      [] sym.tag = "Sequence" ->
            \A i \in 1..Len(sym.items) : _is_symbol_epsilon(sym.items[i], eps_set)
      [] sym.tag = "Choice" ->
            \A i \in 1..Len(sym.options) : _is_symbol_epsilon(sym.options[i], eps_set)
      [] OTHER -> FALSE

\* a list without its first Epsilon only
RECURSIVE DropFirstEpsilon(_)
DropFirstEpsilon(syms) ==
    IF Len(syms) = 0 THEN <<>>
    ELSE IF Head(syms) = Epsilon THEN Tail(syms)
    ELSE <<Head(syms)>> \o DropFirstEpsilon(Tail(syms))

\* the items of a list that are not Epsilon, in order
RECURSIVE DropEpsilon(_)
DropEpsilon(syms) ==
    IF Len(syms) = 0 THEN <<>>
    ELSE IF Head(syms) = Epsilon THEN DropEpsilon(Tail(syms))
    ELSE <<Head(syms)>> \o DropEpsilon(Tail(syms))

\* a reference left as it is
PruneNonTerminalKeep(sym, eps_set) == sym

PruneNonTerminal(sym, eps_set) ==
    IF sym.name \in eps_set THEN Epsilon ELSE sym

RECURSIVE _prune_symbol(_, _)
_prune_symbol(sym, eps_set) ==
    CASE sym.tag = "NonTerminal" -> PruneNonTerminal(sym, eps_set)
      [] sym.tag = "Sequence" ->
            LET pruned == [i \in 1..Len(sym.items) |->
                              _prune_symbol(sym.items[i], eps_set)]
                new_items == DropEpsilon(pruned)
            IN  IF Len(new_items) = 0 THEN Epsilon
                ELSE IF Len(new_items) = 1 THEN new_items[1]
                ELSE Sequence(new_items)
      [] sym.tag = "Choice" ->
            LET pruned == [i \in 1..Len(sym.options) |->
                              _prune_symbol(sym.options[i], eps_set)]
                new_opts == DropEpsilon(pruned)
                has_epsilon == \E i \in 1..Len(pruned) : pruned[i] = Epsilon
                with_eps ==
                    IF has_epsilon
                       /\ ~(\E i \in 1..Len(new_opts) : new_opts[i] = Epsilon)
                    THEN Append(new_opts, Epsilon)
                    ELSE new_opts
            IN  IF Len(new_opts) = 0 THEN Epsilon
                ELSE IF Len(with_eps) = 1 THEN with_eps[1]
                ELSE Choice(with_eps)
      [] OTHER -> sym

\* one pass of the for loop of step 1 over rules i..Len(rs); the set grows
\* while the pass runs
RECURSIVE EpsilonPass(_, _, _, _)
EpsilonPass(rs, i, eps, changed) ==
    IF i > Len(rs) THEN [eps |-> eps, changed |-> changed]
    ELSE IF rs[i].name \in eps THEN EpsilonPass(rs, i + 1, eps, changed)
    ELSE IF _is_symbol_epsilon(rs[i].body, eps)
         THEN EpsilonPass(rs, i + 1, eps \cup {rs[i].name}, TRUE)
         ELSE EpsilonPass(rs, i + 1, eps, changed)

\* step 1: the while loop, repeated until a pass changes nothing
RECURSIVE EpsilonRulesFrom(_, _)
EpsilonRulesFrom(rs, eps) ==
    LET r == EpsilonPass(rs, 1, eps, FALSE)
    IN  IF r.changed THEN EpsilonRulesFrom(rs, r.eps) ELSE r.eps

\* step 1 with a single pass of the for loop
EpsilonRulesOnePass(rs) == EpsilonPass(rs, 1, {}, FALSE).eps

EpsilonRules(rs) == EpsilonRulesFrom(rs, {})

\* step 2: new_rules
RECURSIVE PruneRules(_, _)
PruneRules(rs, eps) ==
    IF Len(rs) = 0 THEN <<>>
    ELSE LET new_body == _prune_symbol(Head(rs).body, eps)
         IN  IF Head(rs).name \in eps \/ new_body = Epsilon
             THEN PruneRules(Tail(rs), eps)
             ELSE <<[name |-> Head(rs).name, body |-> new_body]>>
                  \o PruneRules(Tail(rs), eps)

\* Grammar.__getattr__: any attribute read yields a reference of that name
\* (rules are kept in self.rules, never as attributes)
GetAttr(name) == NonTerminal(name)

\* Grammar.__setattr__ for a rule name
SetAttr(rs, name, value) == Put(rs, name, AsSymbol(value))

\* cleanup(): steps 1 and 2, then step 3, where self.root is read through
\* __getattr__ and written back through __setattr__
cleanup(rs) ==
    LET eps == EpsilonRules(rs)
        new_rules == PruneRules(rs, eps)
    IN  IF Truthy(GetAttr("root"))
        THEN SetAttr(new_rules, "root", _prune_symbol(GetAttr("root"), eps))
        ELSE new_rules

-----------------------------------------------------------------------------------------------------------------------------------------------------
(* The grammar container as a state machine                                *)

\* names a caller defines rules under
RuleNames == {"root", "a", "b"}

\* values a caller assigns to a rule name
RuleValues ==
    { Str("x"),
      Epsilon,
      NonTerminal("a"),
      NonTerminal("b"),
      Sequence(<<>>),
      Choice(<<NonTerminal("b"), Epsilon>>),
      Sequence(<<NonTerminal("a"), Terminal("y", FALSE)>>),
      Sequence(<<Choice(<<NonTerminal("a"), Epsilon, NonTerminal("root")>>),
                 NonTerminal("b")>>) }

\* the domain generator is not in use
NoDomain ==
    /\ domain = <<>>
    /\ entrypoints = <<>>
    /\ pc = [at |-> "off", i |-> 0]
    /\ r_nodes = <<>>
    /\ r_queue = <<>>
    /\ nodes = <<>>
    /\ cache = <<>>
    /\ d_nodes = <<>>

\* the backends typus registers when it is imported
Registered ==
    <<[name |-> "gbnf", body |-> "GBNFCompiler"],
      [name |-> "regex", body |-> "RegexCompiler"],
      [name |-> "lark", body |-> "LarkCompiler"]>>

InitGrammar ==
    /\ _backends = Registered
    /\ rules = <<>>
    /\ g_prev = <<>>
    /\ g_last = [op |-> "init"]
    /\ g_ret = None
    /\ NoDomain

\* g.<name> = value
Define(name, value) ==
    /\ rules' = SetAttr(rules, name, value)
    /\ g_prev' = rules
    /\ g_last' = [op |-> "setattr", name |-> name, value |-> value]
    /\ g_ret' = None
    /\ UNCHANGED <<dvars, _backends, d_nodes>>

\* g.cleanup()
Cleanup ==
    /\ rules' = cleanup(rules)
    /\ g_prev' = rules
    /\ g_last' = [op |-> "cleanup"]
    /\ g_ret' = None
    /\ UNCHANGED <<dvars, _backends, d_nodes>>

NextCleanup ==
    \/ \E name \in RuleNames, value \in RuleValues : Define(name, value)
    \/ Cleanup

SpecCleanup == InitGrammar /\ [][NextCleanup]_vars

-----------------------------------------------------------------------------
(* Properties of cleanup()                                                 *)

\* the names a symbol refers to
RECURSIVE Refs(_)
Refs(sym) ==
    CASE sym.tag = "NonTerminal" -> {sym.name}
      [] sym.tag = "Sequence" ->
            UNION {Refs(sym.items[i]) : i \in 1..Len(sym.items)}
      [] sym.tag = "Choice" ->
            UNION {Refs(sym.options[i]) : i \in 1..Len(sym.options)}
      [] OTHER -> {}

\* every NonTerminal of every rule body names a rule of the map
Closed(d) == \A i \in 1..Len(d) : Refs(d[i].body) \subseteq Keys(d)

\* C6: cleanup() is idempotent: whatever the rule map was, once cleanup()
\* has run, running it again leaves the name-to-body mapping as it is.
C6_CleanupIdempotent ==
    g_last.op = "cleanup" => AsMap(cleanup(rules)) = AsMap(rules)

\* a cleanup() that deleted an epsilon rule and rewrote a surviving body
C6_Witness ==
    /\ g_last.op = "cleanup"
    /\ EpsilonRules(g_prev) # {}
    /\ \E k \in (Keys(rules) \cap Keys(g_prev)) \ {"root"} :
          Get(rules, k) # Get(g_prev, k)

\* C7: if every NonTerminal named a defined rule before cleanup(), every
\* NonTerminal of a surviving body names a rule that is still in the map.
C7_NoDanglingAfterCleanup ==
    (g_last.op = "cleanup" /\ Closed(g_prev)) => Closed(rules)

\* a closed map in which a surviving rule referred to a deleted rule
C7_Witness ==
    /\ g_last.op = "cleanup"
    /\ Closed(g_prev)
    /\ \E k \in (Keys(rules) \cap Keys(g_prev)) \ {"root"} :
          Refs(Get(g_prev, k)) \cap EpsilonRules(g_prev) # {}

-----------------------------------------------------------------------------
(* some() on a container that already holds rules                          *)

\* most rules the container holds before a call that adds one
MaxRules == 2

\* arguments of some(): the repeated symbol, the separator, the explicit name
SomeSymbols ==
    { Str("A"),
      NonTerminal("A"),
      Choice(<<Terminal("a, b", FALSE), regex("[0-9]")>>),
      Sequence(<<NonTerminal("A"), Terminal("y", FALSE)>>) }

SomeSeps == { None, Str(""), Str(","), NonTerminal("sep") }

SomeExplicitNames == { None, Str("lst") }

\* rules the caller defines by hand next to the generated ones
HandNames == {"lst"}

HandValues == { Str("x"), NonTerminal("A") }

\* g.some(symbol, sep, name)
Some(symbol, sep, name) ==
    /\ Len(rules) < MaxRules \/ HasKey(rules, SomeName(symbol, sep, name))
    /\ LET r == some(rules, symbol, sep, name)
       IN  /\ rules' = r.rules
           /\ g_ret' = r.ret
    /\ g_prev' = rules
    /\ g_last' = [op |-> "some", symbol |-> symbol, sep |-> sep, name |-> name]
    /\ UNCHANGED <<dvars, _backends, d_nodes>>

NextSome ==
    \/ \E name \in HandNames, value \in HandValues :
          /\ Len(rules) < MaxRules \/ HasKey(rules, name)
          /\ Define(name, value)
    \/ \E symbol \in SomeSymbols, sep \in SomeSeps, name \in SomeExplicitNames :
          Some(symbol, sep, name)

SpecSome == InitGrammar /\ [][NextSome]_vars

\* the last operation was some(), and these were its arguments
SomeCalled == g_last.op = "some"

\* the rules of d other than the one named k, in order
Others(d, k) == SelectSeq(d, LAMBDA e : e.name # k)

\* exactly one rule, named R, was added, holding body, and R was returned
AddedExactly(R, body) ==
    /\ R \notin Keys(g_prev)
    /\ Keys(rules) = Keys(g_prev) \cup {R}
    /\ Get(rules, R) = body
    /\ Others(rules, R) = g_prev
    /\ g_ret = NonTerminal(R)

\* C8 as stated: when the target name is not in the map, some(X, sep=S)
\* adds exactly one rule R with body Choice(X, Sequence(X, S, NonTerminal(R)))
\* (Sequence(X, NonTerminal(R)) when no separator is given), returns
\* NonTerminal(R) and leaves the other rules as they were.
C8_AsStated ==
    (SomeCalled /\ ~HasKey(g_prev, SomeName(g_last.symbol, g_last.sep, g_last.name)))
    => LET X == AsSymbol(g_last.symbol)
           S == AsSymbol(g_last.sep)
       IN  \E R \in Keys(rules) :
              AddedExactly(R,
                 Choice(<<X, IF g_last.sep = None
                             THEN Sequence(<<X, NonTerminal(R)>>)
                             ELSE Sequence(<<X, S, NonTerminal(R)>>)>>))

\* the items X contributes to the recursive branch
ItemsOf(X) == IF X.tag = "Sequence" THEN X.items ELSE <<X>>

\* C8 amended: the recursive branch is X + S + NonTerminal(R): an
\* empty-string separator counts as no separator, and an X that is itself a
\* Sequence contributes its items instead of being nested.
C8_SomeAddsRecursiveRule ==
    (SomeCalled /\ ~HasKey(g_prev, SomeName(g_last.symbol, g_last.sep, g_last.name)))
    => LET X == AsSymbol(g_last.symbol)
           S == AsSymbol(g_last.sep)
           noSep == g_last.sep = None \/ g_last.sep = Str("")
       IN  \E R \in Keys(rules) :
              AddedExactly(R,
                 Choice(<<X, Sequence(ItemsOf(X)
                                      \o (IF noSep THEN <<>> ELSE <<S>>)
                                      \o <<NonTerminal(R)>>)>>))

\* some() with a str symbol and a separator added a rule
C8_Witness ==
    /\ SomeCalled
    /\ g_ret # ValueError
    /\ IsStr(g_last.symbol)
    /\ Truthy(g_last.sep)
    /\ Len(g_prev) > 0

\* C9: some() with an explicit name that is already a key raises and
\* leaves the rule map as it was.
C9_ExplicitNameCollisionRaises ==
    (SomeCalled /\ g_last.name # None /\ g_last.name.value \in Keys(g_prev))
    => (g_ret = ValueError /\ rules = g_prev)

\* an explicit name hit a rule that the call would have defined otherwise
C9_Witness ==
    /\ SomeCalled
    /\ g_last.name # None
    /\ g_last.name.value \in Keys(g_prev)
    /\ Get(g_prev, g_last.name.value)
          # some(<<>>, g_last.symbol, g_last.sep, g_last.name).rules[1].body

\* C10 as stated: without an explicit name some() always succeeds and
\* defines a name that was not in the map.
C10_AsStated ==
    (SomeCalled /\ g_last.name = None)
    => /\ g_ret # ValueError
       /\ Keys(rules) \ Keys(g_prev) # {}

\* C10 amended: without an explicit name the rule name is derived from the
\* symbol and the separator; a call that succeeds defines a name that was
\* not in the map, and a call whose derived name is taken raises and
\* changes nothing.
C10_DerivedNameFreshOrRaises ==
    (SomeCalled /\ g_last.name = None)
    => IF g_ret = ValueError
       THEN /\ rules = g_prev
            /\ \E k \in Keys(g_prev) :
                  k = SomeName(g_last.symbol, g_last.sep, None)
       ELSE /\ g_ret.tag = "NonTerminal"
            /\ g_ret.name \notin Keys(g_prev)
            /\ Keys(rules) = Keys(g_prev) \cup {g_ret.name}

\* a second some() for a different symbol with the same derived name
C10_Witness ==
    /\ SomeCalled
    /\ g_last.name = None
    /\ g_ret = ValueError
    /\ \E k \in Keys(g_prev) :
          /\ k = SomeName(g_last.symbol, g_last.sep, None)
          /\ Get(g_prev, k).options[1] # AsSymbol(g_last.symbol)

-----------------------------------------------------------------------------
(* The reflected domain                                                    *)
(*                                                                         *)
(* A type is named by its __name__.  A function or method is a record      *)
(* [name, params, ret, hints_ok]: params are the parameters other than     *)
(* self in signature order, each with its annotation (Untyped when it has  *)
(* none); ret is the return annotation (NoReturnHint when there is none,   *)
(* "None" for None); hints_ok is whether get_type_hints succeeds.  A class *)
(* is [name, members], the members being its functions in the order of     *)
(* inspect.getmembers (sorted by name).                                    *)

Untyped == "<untyped>"

NoReturnHint == "<no return hint>"

\* a Transition without origin_type
NoNode == "<none>"

Primitives == {"int", "str", "float", "bool"}

\* the types _get_or_create_node never queues
Unqueued == {"str", "int", "float", "bool", "list", "dict"}

Builtins == {"int", "str", "float", "bool", "list", "dict", "set"}

\* getattr(py_type, "__origin__", py_type)
Origin(py_type) ==
    CASE py_type = "List[int]" -> "list"
      [] py_type = "Set[str]"  -> "set"
      [] OTHER -> py_type

\* getattr(origin, "__name__", str(origin))
TypeName(py_type) == py_type

ClassNames(dom) == {dom.classes[i].name : i \in 1..Len(dom.classes)}

ClassOf(dom, name) ==
    dom.classes[CHOOSE i \in 1..Len(dom.classes) : dom.classes[i].name = name]

\* inspect.isclass
IsClass(dom, py_type) == py_type \in ClassNames(dom) \cup Builtins

\* the functions inspect.getmembers finds in a class; the methods of a
\* builtin type are descriptors, not functions
Members(dom, py_type) ==
    IF py_type \in ClassNames(dom) THEN ClassOf(dom, py_type).members ELSE <<>>

-----------------------------------------------------------------------------
(* Reflector                                                               *)
(* The reflector state r is [nodes, queue]; a TypeNode is                  *)
(* [py_type, name, producers] and is referred to by its py_type.           *)

NodeKeys(ns) == {ns[i].py_type : i \in 1..Len(ns)}

NodeIndex(ns, py_type) == CHOOSE i \in 1..Len(ns) : ns[i].py_type = py_type

NodeOf(ns, py_type) == ns[NodeIndex(ns, py_type)]

\* a lookup that queues the node again each time a class is met
_get_or_create_nodeRequeue(dom, r, py_type) ==
    LET origin == Origin(py_type)
        queued == IF IsClass(dom, origin) /\ origin \notin Unqueued
                  THEN Append(r.queue, origin) ELSE r.queue
    IN  IF origin \in NodeKeys(r.nodes) THEN [r EXCEPT !.queue = queued]
        ELSE [r EXCEPT
                 !.nodes = Append(@, [py_type |-> origin,
                                      name |-> TypeName(origin),
                                      producers |-> <<>>]),
                 !.queue = queued]

_get_or_create_node(dom, r, py_type) ==
    LET origin == Origin(py_type)
    IN  IF origin \in NodeKeys(r.nodes) THEN r
        ELSE [r EXCEPT
                 !.nodes = Append(@, [py_type |-> origin,
                                      name |-> TypeName(origin),
                                      producers |-> <<>>]),
                 !.queue = IF IsClass(dom, origin) /\ origin \notin Unqueued
                           THEN Append(@, origin) ELSE @]

\* step 3 of _analyze_function: a node for every annotated parameter
RECURSIVE AnalyzeParams(_, _, _)
AnalyzeParams(dom, r, params) ==
    IF Len(params) = 0 THEN r
    ELSE IF Head(params).type = Untyped
         THEN AnalyzeParams(dom, r, Tail(params))
         ELSE AnalyzeParams(dom, _get_or_create_node(dom, r, Head(params).type),
                            Tail(params))

\* params: name -> TypeNode, for the annotated parameters
ParamNodes(params) ==
    LET typed == SelectSeq(params, LAMBDA q : q.type # Untyped)
    IN  [i \in 1..Len(typed) |->
            [name |-> typed[i].name, type |-> Origin(typed[i].type)]]

\* steps 4 and 5: the Transition is appended to the producers of the node
\* it is registered on
Register(r, on, transition) ==
    [r EXCEPT !.nodes[NodeIndex(r.nodes, on)].producers = Append(@, transition)]

\* the Transition registered on the type of the receiver
RegisterTransitionOnOrigin(r, transition) ==
    Register(r, IF transition.origin_type = NoNode THEN transition.return_type
                ELSE transition.origin_type, transition)

RegisterTransition(r, transition) ==
    Register(r, transition.return_type, transition)

\* an analysis that goes on when get_type_hints raised
_analyze_functionHintsUnchecked(dom, r, func, owner) ==
    IF CharAt(func.name, 1) = "_" /\ func.name # "__init__" THEN r
    ELSE IF func.name = "__init__"
    THEN IF owner = NoNode THEN r
         ELSE RegisterTransition(AnalyzeParams(dom, r, func.params),
                 [name |-> func.name, return_type |-> owner,
                  params |-> ParamNodes(func.params),
                  is_method |-> FALSE, origin_type |-> NoNode])
    ELSE IF func.ret = NoReturnHint \/ func.ret = "None" THEN r
    ELSE LET r1 == _get_or_create_node(dom, r, func.ret)
         IN  RegisterTransition(AnalyzeParams(dom, r1, func.params),
                 [name |-> func.name, return_type |-> Origin(func.ret),
                  params |-> ParamNodes(func.params),
                  is_method |-> owner # NoNode, origin_type |-> owner])

\* _analyze_function(func, owner_node); owner is NoNode for a free function
_analyze_function(dom, r, func, owner) ==
    IF CharAt(func.name, 1) = "_" /\ func.name # "__init__" THEN r
    ELSE IF ~func.hints_ok THEN r
    ELSE IF func.name = "__init__"
    THEN IF owner = NoNode THEN r
         ELSE RegisterTransition(AnalyzeParams(dom, r, func.params),
                 [name |-> func.name, return_type |-> owner,
                  params |-> ParamNodes(func.params),
                  is_method |-> FALSE, origin_type |-> NoNode])
    ELSE IF func.ret = NoReturnHint \/ func.ret = "None" THEN r
    ELSE LET r1 == _get_or_create_node(dom, r, func.ret)
         IN  RegisterTransition(AnalyzeParams(dom, r1, func.params),
                 [name |-> func.name, return_type |-> Origin(func.ret),
                  params |-> ParamNodes(func.params),
                  is_method |-> owner # NoNode, origin_type |-> owner])

\* the for loop of _analyze_class over the members from the i-th on
RECURSIVE AnalyzeMembers(_, _, _, _)
AnalyzeMembers(dom, r, members, owner) ==
    IF Len(members) = 0 THEN r
    ELSE AnalyzeMembers(dom, _analyze_function(dom, r, Head(members), owner),
                        Tail(members), owner)

_analyze_class(dom, r, node) == AnalyzeMembers(dom, r, Members(dom, node), node)

-----------------------------------------------------------------------------
(* The Python language strategy                                            *)

render_primitive(py_type) ==
    CASE py_type = "int"  -> regex("[0-9]+")
      [] py_type = "str"  -> regex("\"[^\"]*\"")
      [] py_type = "bool" -> Or(Terminal("True", FALSE), Terminal("False", FALSE))
      [] OTHER -> Terminal("<" \o TypeName(py_type) \o ">", FALSE)

\* _render_args: the items k=v of args from the i-th on, ", " between them
RECURSIVE RenderArgItems(_, _)
RenderArgItems(args, i) ==
    IF i > Len(args) THEN <<>>
    ELSE (IF i > 1 THEN <<Terminal(", ", FALSE)>> ELSE <<>>)
         \o <<Terminal(args[i].name \o "=", FALSE), args[i].sym>>
         \o RenderArgItems(args, i + 1)

_render_args(args) ==
    IF Len(args) = 0 THEN Epsilon ELSE Sequence(RenderArgItems(args, 1))

\* render_head(ctx, name, args, origin); origin is None when not given
render_head(name, args, origin) ==
    IF Truthy(origin)
    THEN Plus(Plus(Plus(origin, Terminal("." \o name \o "(", FALSE)),
                   _render_args(args)),
              Terminal(")", FALSE))
    ELSE Plus(Plus(Terminal(name \o "(", FALSE), _render_args(args)),
              Terminal(")", FALSE))

render_tail(name, args) ==
    Plus(Plus(Terminal("." \o name \o "(", FALSE), _render_args(args)),
         Terminal(")", FALSE))

-----------------------------------------------------------------------------
(* DomainGenerator                                                         *)
(* The generator state g is [nodes, queue, rules, cache, err]: the         *)
(* reflector's nodes and queue, the rules of its grammar, its cache        *)
(* (py_type -> NonTerminal, as a list of [py_type, ref]) and whether an    *)
(* exception is propagating.                                               *)

CacheKeys(c) == {c[i].py_type : i \in 1..Len(c)}

CacheGet(c, py_type) ==
    c[CHOOSE i \in 1..Len(c) : c[i].py_type = py_type].ref

\* the generator state as the reflector state and back
ReflectorOf(g) == [nodes |-> g.nodes, queue |-> g.queue]

WithReflector(g, r) == [g EXCEPT !.nodes = r.nodes, !.queue = r.queue]

\* self.grammar.any(symbol) inside the generator: the rule map changes, a
\* ValueError propagates
GrammarAny(g, symbol) ==
    LET r == any(g.rules, symbol, None, None)
    IN  [g   |-> [g EXCEPT !.rules = r.rules, !.err = (r.ret = ValueError)],
         sym |-> r.ret]

\* the argument of grammar.any() for the chain of a type: the name of the
\* chain rule, passed as a str
ChainUnit(strict_chain_name) == Str(strict_chain_name)

\* the name a producer is rendered under as a Head
HeadName(trans) == trans.name

\* every method classified as a tail, whatever its receiver
IsTailAlways(trans, node) == trans.is_method

\* whether a producer of node is classified as a tail (Fluent or Exit)
IsTailOf(trans, node) == trans.is_method /\ trans.origin_type = node

RECURSIVE _resolve_type(_, _, _)
RECURSIVE ResolveAll(_, _, _, _)
RECURSIVE ClassifyProducers(_, _, _, _, _)

AddSym(acc, res) == [g |-> res.g, syms |-> Append(acc.syms, res.sym)]

NoSyms(g) == [g |-> g, syms |-> <<>>]

\* self._resolve_type(t) for the types from the i-th on, one after the
\* other; acc is the state and the symbols returned so far
ResolveAll(dom, acc, types, i) ==
    IF i > Len(types) THEN acc
    ELSE ResolveAll(dom, AddSym(acc, _resolve_type(dom, acc.g, types[i])),
                    types, i + 1)

ParamTypes(params) == [i \in 1..Len(params) |-> params[i].type]

\* arg_symbols: the parameter names with the symbols syms[skip+1..]
ArgSymbols(params, syms, skip) ==
    [i \in 1..Len(params) |-> [name |-> params[i].name, sym |-> syms[skip + i]]]

\* whether a Head is rendered on an origin
HasOrigin(trans) == trans.is_method /\ trans.origin_type # NoNode

\* the types one pass of the loop over node.producers resolves, in order:
\* the parameters, then the origin when the producer is a Head of a method
TypesOf(trans, node) ==
    ParamTypes(trans.params)
    \o (IF ~IsTailOf(trans, node) /\ HasOrigin(trans)
        THEN <<trans.origin_type>> ELSE <<>>)

\* the body of the loop over node.producers; res is the state and the
\* symbols once the types of TypesOf are resolved
Classify(acc, node, trans, res) ==
    LET args == ArgSymbols(trans.params, res.syms, 0)
    IN  IF IsTailOf(trans, node)
        THEN IF trans.return_type = node
             THEN [acc EXCEPT
                      !.g = res.g,
                      !.fluents = Append(@, render_tail(trans.name, args))]
             ELSE [acc EXCEPT
                      !.g = res.g,
                      !.exits = Append(@, [sym |-> render_tail(trans.name, args),
                                           target |-> trans.return_type])]
        ELSE [acc EXCEPT
                 !.g = res.g,
                 !.heads = Append(@,
                     render_head(HeadName(trans), args,
                                 IF HasOrigin(trans)
                                 THEN res.syms[Len(res.syms)] ELSE None))]

\* step 1 of _build_rule_body from the i-th producer on; acc is the state
\* and the lists heads, fluents, exits (an exit is [sym, target])
ClassifyProducers(dom, acc, node, producers, i) ==
    IF i > Len(producers) \/ acc.g.err THEN acc
    ELSE ClassifyProducers(dom,
             Classify(acc, node, producers[i],
                      ResolveAll(dom, NoSyms(acc.g),
                                 TypesOf(producers[i], node), 1)),
             node, producers, i + 1)

\* self.grammar.rules[ref.name] = head_rule + strict_chain_ref; chain is
\* what self.grammar.any(strict_chain_name) left and returned
PutStrict(ref, heads, exits, chain) ==
    [g     |-> IF chain.g.err THEN chain.g
               ELSE [chain.g EXCEPT
                        !.rules = Put(@, ref.name, Plus(Choice(heads), chain.sym))],
     chain |-> chain.sym,
     exits |-> exits]

\* step 2 of _build_rule_body: the rules T_Chain and T; c is what step 1
\* left.  The result is the state, strict_chain_ref and the exits.
DefineStrict(c, node, ref, is_primitive) ==
    IF c.g.err THEN [g |-> c.g, chain |-> None, exits |-> <<>>]
    ELSE PutStrict(ref,
             (IF is_primitive THEN <<render_primitive(node)>> ELSE <<>>)
             \o c.heads,
             c.exits,
             GrammarAny([c.g EXCEPT !.rules = Put(@, ref.name \o "_Chain",
                                                  Choice(c.fluents))],
                        ChainUnit(ref.name \o "_Chain")))

\* exit_options: sym + NonTerminal(target_pipeline_name) for every exit
ExitOptions(ns, exits) ==
    [i \in 1..Len(exits) |->
        Plus(exits[i].sym,
             NonTerminal(NodeOf(ns, exits[i].target).name \o "_Pipeline"))]

\* target_node.py_type for every exit
ExitTargets(ns, exits) ==
    [i \in 1..Len(exits) |-> NodeOf(ns, exits[i].target).py_type]

\* self.grammar.rules[pipeline_name] = pipeline_rule, in state g
PutPipeline(ref, strict_chain_ref, exit_options, g) ==
    IF g.err THEN g
    ELSE [g EXCEPT
             !.rules = Put(@, ref.name \o "_Pipeline",
                           IF Len(exit_options) > 0
                           THEN Plus(strict_chain_ref,
                                     maybe(Choice(exit_options)))
                           ELSE strict_chain_ref)]

\* step 3 of _build_rule_body: s is what step 2 left
DefinePipeline(dom, ref, s) ==
    IF s.g.err THEN s.g
    ELSE PutPipeline(ref, s.chain, ExitOptions(s.g.nodes, s.exits),
                     ResolveAll(dom, NoSyms(s.g),
                                ExitTargets(s.g.nodes, s.exits), 1).g)

_build_rule_body(dom, g, node, ref, is_primitive) ==
    DefinePipeline(dom, ref,
        DefineStrict(
            ClassifyProducers(dom,
                [g |-> g, heads |-> <<>>, fluents |-> <<>>, exits |-> <<>>],
                node, NodeOf(g.nodes, node).producers, 1),
            node, ref, is_primitive))

\* a cache that is not consulted for the primitive types
IsCachedClass(c, py_type) ==
    py_type \notin Primitives /\ py_type \in CacheKeys(c)

\* if py_type in self._cache
IsCached(c, py_type) == py_type \in CacheKeys(c)

\* _resolve_type from step 2 on: g1 is the state once the node exists
ResolveNode(dom, g1, py_type) ==
    IF py_type \in Primitives
       /\ Len(NodeOf(g1.nodes, Origin(py_type)).producers) = 0
    THEN [g |-> g1, sym |-> render_primitive(py_type)]
    ELSE IF IsCached(g1.cache, py_type)
    THEN [g |-> g1, sym |-> CacheGet(g1.cache, py_type)]
    ELSE [g   |-> _build_rule_body(dom,
                      [g1 EXCEPT
                          !.cache = Append(@, [py_type |-> py_type,
                                               ref |-> NonTerminal(
                                                           TypeName(py_type))])],
                      Origin(py_type), NonTerminal(TypeName(py_type)),
                      py_type \in Primitives),
          sym |-> NonTerminal(TypeName(py_type))]

\* _resolve_type(py_type): [g, sym]
_resolve_type(dom, g, py_type) ==
    IF g.err THEN [g |-> g, sym |-> None]
    ELSE ResolveNode(dom,
             WithReflector(g, _get_or_create_node(dom, ReflectorOf(g), py_type)),
             py_type)

\* whether _render_entrypoint_heads renders a producer
IsEntryHead(trans, node) == ~(trans.is_method /\ trans.origin_type = node)

\* the types one pass of the loop of _render_entrypoint_heads resolves, in
\* order: the origin of a method, then the parameters
EntryTypesOf(trans) ==
    (IF HasOrigin(trans) THEN <<trans.origin_type>> ELSE <<>>)
    \o ParamTypes(trans.params)

\* heads.append(render_head(...)) in _render_entrypoint_heads; res is the
\* state and the symbols once the types of EntryTypesOf are resolved
AddEntryHead(acc, trans, res) ==
    [g |-> res.g,
     heads |-> Append(acc.heads,
                  render_head(HeadName(trans),
                      ArgSymbols(trans.params, res.syms,
                                 IF HasOrigin(trans) THEN 1 ELSE 0),
                      IF HasOrigin(trans) THEN res.syms[1] ELSE None))]

\* _render_entrypoint_heads(node, target_node) from the i-th producer on;
\* acc is [g, heads]
RECURSIVE RenderEntrypointHeads(_, _, _, _, _)
RenderEntrypointHeads(dom, acc, node, producers, i) ==
    IF i > Len(producers) \/ acc.g.err THEN acc
    ELSE RenderEntrypointHeads(dom,
             IF IsEntryHead(producers[i], node)
             THEN AddEntryHead(acc, producers[i],
                      ResolveAll(dom, NoSyms(acc.g),
                                 EntryTypesOf(producers[i]), 1))
             ELSE acc,
             node, producers, i + 1)

\* the first producer named name, scanning the nodes in order and the
\* producers of each in order: <<[node, trans]>>, or <<>> when there is none
RECURSIVE FindProducer(_, _, _, _)
FindProducer(ns, keys, i, name) ==
    IF i > Len(keys) THEN <<>>
    ELSE LET n == NodeOf(ns, keys[i])
             hits == SelectSeq(n.producers, LAMBDA t : t.name = name)
         IN  IF Len(hits) > 0 THEN <<[node |-> n, trans |-> hits[1]]>>
             ELSE FindProducer(ns, keys, i + 1, name)

\* Case A: if heads: root_options.append(Choice(*heads) + pipeline_ref)
AddClassOption(acc, node, h) ==
    [g |-> h.g,
     options |-> IF Len(h.heads) > 0
                 THEN Append(acc.options,
                             Plus(Choice(h.heads),
                                  NonTerminal(node.name \o "_Pipeline")))
                 ELSE acc.options]

\* Case A, g1 being the state once the node of the class exists
ClassOption(dom, acc, g1, py_type) ==
    AddClassOption(acc, NodeOf(g1.nodes, py_type),
        RenderEntrypointHeads(dom, [g |-> g1, heads |-> <<>>], py_type,
                              NodeOf(g1.nodes, py_type).producers, 1))

\* Case B: root_options.append(head + pipeline_ref); res is the state and
\* the symbols of the arguments
AddFunctionOption(acc, found, res) ==
    [g |-> res.g,
     options |-> Append(acc.options,
                    Plus(render_head(HeadName(found.trans),
                                     ArgSymbols(found.trans.params, res.syms, 0),
                                     None),
                         NonTerminal(found.node.name \o "_Pipeline")))]

\* Case B, found being the producer the scan of the nodes stopped at
FunctionOption(dom, acc, found) ==
    IF Len(found) = 0 THEN acc
    ELSE AddFunctionOption(acc, found[1],
             ResolveAll(dom, NoSyms(acc.g),
                        ParamTypes(found[1].trans.params), 1))

\* step 2 of build() from the i-th entrypoint on; acc is [g, options]
RECURSIVE RootOptions(_, _, _, _, _)
RootOptions(dom, acc, entries, keys, i) ==
    IF i > Len(entries) \/ acc.g.err THEN acc
    ELSE RootOptions(dom,
             IF entries[i].kind = "class"
             THEN ClassOption(dom, acc,
                      WithReflector(acc.g,
                          _get_or_create_node(dom, ReflectorOf(acc.g),
                                              entries[i].name)),
                      Origin(entries[i].name))
             ELSE FunctionOption(dom, acc,
                      FindProducer(acc.g.nodes, keys, 1, entries[i].name)),
             entries, keys, i + 1)

\* step 3 of build(): the fallback, and self.grammar.root = Choice(...)
SetRoot(keys, o) ==
    IF o.g.err THEN o.g
    ELSE [o.g EXCEPT
             !.rules = SetAttr(@, "root",
                 Choice(IF Len(o.options) > 0 THEN o.options
                        ELSE [i \in 1..Len(keys) |->
                                 NonTerminal(NodeOf(o.g.nodes, keys[i]).name
                                             \o "_Pipeline")]))]

\* steps 2 and 3 of build(): the root rule
BuildRoot(dom, g, entries, keys) ==
    SetRoot(keys, RootOptions(dom, [g |-> g, options |-> <<>>], entries, keys, 1))

-----------------------------------------------------------------------------
(* Domains                                                                 *)

Fn(name, params, ret) ==
    [name |-> name, params |-> params, ret |-> ret, hints_ok |-> TRUE]

P(name, type) == [name |-> name, type |-> type]

\* class DataFrame with a constructor, two fluent methods and an exit, and
\* the factory function read_csv
Pandas ==
    [classes |->
        <<[name |-> "DataFrame",
           members |-> <<Fn("__init__", <<P("path", "str")>>, NoReturnHint),
                         Fn("count", <<>>, "int"),
                         Fn("filter", <<P("q", "str")>>, "DataFrame"),
                         Fn("select", <<P("col", "str")>>, "DataFrame")>>]>>,
     functions |-> <<Fn("read_csv", <<P("path", "str")>>, "DataFrame")>>]

\* the DataFrame whose filter takes an int as well
Nested ==
    [classes |->
        <<[name |-> "DataFrame",
           members |-> <<Fn("__init__", <<P("path", "str")>>, NoReturnHint),
                         Fn("count", <<>>, "int"),
                         Fn("filter", <<P("q", "str"), P("limit", "int")>>,
                            "DataFrame"),
                         Fn("select", <<P("col", "str")>>, "DataFrame")>>]>>,
     functions |-> <<Fn("read_csv", <<P("path", "str")>>, "DataFrame")>>]

\* two classes that refer to each other
Graph ==
    [classes |->
        <<[name |-> "A",
           members |-> <<Fn("__init__", <<>>, NoReturnHint),
                         Fn("to_b", <<>>, "B"),
                         Fn("with_b", <<P("b", "B")>>, "A")>>],
          [name |-> "B",
           members |-> <<Fn("__init__", <<P("size", "int")>>, NoReturnHint),
                         Fn("back", <<>>, "A"),
                         Fn("clone", <<>>, "B")>>]>>,
     functions |-> <<>>]

\* a class with members the reflector skips (private, hints that cannot be
\* resolved, no return), generic aliases and an unannotated parameter;
\* functions whose hints cannot be resolved or returning a class, None and
\* a primitive
Box ==
    [classes |->
        <<[name |-> "Box",
           members |-> <<Fn("__init__", <<P("items", "List[int]"),
                                          P("tags", "Set[str]")>>, NoReturnHint),
                         Fn("_secret", <<>>, "Box"),
                         [Fn("broken", <<P("x", "float")>>, "Box")
                              EXCEPT !.hints_ok = FALSE],
                         Fn("clear", <<>>, "None"),
                         Fn("peek", <<>>, NoReturnHint),
                         Fn("put", <<P("item", Untyped), P("n", "int")>>,
                            "Box")>>]>>,
     functions |-> <<[Fn("lam", <<P("x", "float")>>, "Box")
                          EXCEPT !.hints_ok = FALSE],
                     Fn("make", <<>>, "Box"),
                     Fn("noop", <<>>, "None"),
                     Fn("version", <<>>, "str")>>]

\* a class without a constructor, whose only method takes a primitive
Tool ==
    [classes |->
        <<[name |-> "Tool",
           members |-> <<Fn("run", <<P("n", "int")>>, "Tool")>>]>>,
     functions |-> <<>>]

\* a function and a method of the same name
Shadow ==
    [classes |->
        <<[name |-> "Store",
           members |-> <<Fn("__init__", <<>>, NoReturnHint),
                         Fn("load", <<P("key", "str")>>, "Store")>>]>>,
     functions |-> <<Fn("load", <<P("n", "int")>>, "int")>>]

Domains == {Pandas, Nested, Graph, Box, Tool, Shadow}

\* an entrypoint is a class, a function, or an object that is neither
Class(name) == [kind |-> "class", name |-> name]

Function(name) == [kind |-> "function", name |-> name]

Other == [kind |-> "other", name |-> "42"]

FunctionOf(dom, name) ==
    dom.functions[CHOOSE i \in 1..Len(dom.functions) :
                     dom.functions[i].name = name]

\* the objects a caller may pass for a domain
Entries(dom) ==
    {Class(dom.classes[i].name) : i \in 1..Len(dom.classes)}
    \cup {Function(dom.functions[i].name) : i \in 1..Len(dom.functions)}
    \cup (IF dom = Box THEN {Class("int"), Other} ELSE {})

-----------------------------------------------------------------------------
(* DomainGenerator(PythonLanguage()).build of the entrypoints, by steps    *)

MaxEntrypoints == 2

\* the tuples of at most n objects of S
RECURSIVE Tuples(_, _)
Tuples(S, n) ==
    IF n = 0 THEN {<<>>}
    ELSE Tuples(S, n - 1)
         \cup {Append(t, e) : t \in {u \in Tuples(S, n - 1) : Len(u) = n - 1},
                              e \in S}

InitDomain ==
    /\ _backends = Registered
    /\ domain \in Domains
    /\ entrypoints \in Tuples(Entries(domain), MaxEntrypoints)
    /\ pc = [at |-> "reflect", i |-> 1]
    /\ r_nodes = <<>>
    /\ r_queue = <<>>
    /\ nodes = <<>>
    /\ cache = <<>>
    /\ d_nodes = <<>>
    /\ rules = <<>>
    /\ g_prev = <<>>
    /\ g_last = [op |-> "init"]
    /\ g_ret = None

\* the state of the generator
G ==
    [nodes |-> r_nodes, queue |-> r_queue, rules |-> rules, cache |-> cache,
     err |-> FALSE]

SetG(g) ==
    /\ r_nodes' = g.nodes
    /\ r_queue' = g.queue
    /\ rules' = g.rules
    /\ cache' = g.cache

\* reflect, step 1: the next entrypoint seeds the graph
Seed ==
    /\ pc.at = "reflect"
    /\ pc.i <= Len(entrypoints)
    /\ LET obj == entrypoints[pc.i]
           r   == [nodes |-> r_nodes, queue |-> r_queue]
           r1  == CASE obj.kind = "class" ->
                         _get_or_create_node(domain, r, obj.name)
                    [] obj.kind = "function" ->
                         _analyze_function(domain, r,
                                           FunctionOf(domain, obj.name), NoNode)
                    [] OTHER -> r
       IN  /\ r_nodes' = r1.nodes
           /\ r_queue' = r1.queue
           /\ pc' = IF obj.kind = "other" THEN [at |-> "failed", i |-> pc.i]
                    ELSE [pc EXCEPT !.i = @ + 1]
    /\ UNCHANGED <<domain, entrypoints, nodes, cache, gvars, _backends, d_nodes>>

\* reflect, step 2: the node at the head of the queue is scanned
Scan ==
    /\ pc.at = "reflect"
    /\ pc.i > Len(entrypoints)
    /\ Len(r_queue) > 0
    /\ LET r1 == _analyze_class(domain,
                                [nodes |-> r_nodes, queue |-> Tail(r_queue)],
                                Head(r_queue))
       IN  /\ r_nodes' = r1.nodes
           /\ r_queue' = r1.queue
    /\ UNCHANGED <<domain, entrypoints, pc, nodes, cache, gvars, _backends, d_nodes>>

\* reflect returns the nodes; build raises when there are none
Reflected ==
    /\ pc.at = "reflect"
    /\ pc.i > Len(entrypoints)
    /\ Len(r_queue) = 0
    /\ nodes' = [i \in 1..Len(r_nodes) |-> r_nodes[i].py_type]
    /\ pc' = IF Len(r_nodes) = 0 THEN [at |-> "failed", i |-> 0]
             ELSE [at |-> "resolve", i |-> 1]
    /\ UNCHANGED <<domain, entrypoints, r_nodes, r_queue, cache, gvars, _backends, d_nodes>>

\* build, step 1: the rules of the next node
Resolve ==
    /\ pc.at = "resolve"
    /\ LET res == _resolve_type(domain, G, nodes[pc.i])
       IN  /\ SetG(res.g)
           /\ pc' = IF res.g.err THEN [at |-> "failed", i |-> pc.i]
                    ELSE IF pc.i = Len(nodes) THEN [at |-> "root", i |-> 0]
                    ELSE [pc EXCEPT !.i = @ + 1]
    /\ UNCHANGED <<domain, entrypoints, nodes, g_prev, g_last, g_ret, _backends, d_nodes>>

\* build, steps 2 and 3: the root rule
Root ==
    /\ pc.at = "root"
    /\ LET g == BuildRoot(domain, G, entrypoints, nodes)
       IN  /\ SetG(g)
           /\ pc' = IF g.err THEN [at |-> "failed", i |-> 0]
                    ELSE [at |-> "done", i |-> 0]
    /\ UNCHANGED <<domain, entrypoints, nodes, g_prev, g_last, g_ret, _backends, d_nodes>>

NextDomain == Seed \/ Scan \/ Reflected \/ Resolve \/ Root

SpecDomain == InitDomain /\ [][NextDomain]_vars

-----------------------------------------------------------------------------
(* Properties of the built grammar                                         *)

\* every Transition of the graph
Transitions(ns) ==
    UNION {{ns[i].producers[j] : j \in 1..Len(ns[i].producers)} :
           i \in 1..Len(ns)}

\* the methods whose return type differs from the type of their receiver
Exits(ns) ==
    {t \in Transitions(ns) : t.is_method /\ t.origin_type # t.return_type}

\* the symbols a symbol is made of, itself included
RECURSIVE Subterms(_)
Subterms(sym) ==
    {sym} \cup
    CASE sym.tag = "Sequence" ->
            UNION {Subterms(sym.items[i]) : i \in 1..Len(sym.items)}
      [] sym.tag = "Choice" ->
            UNION {Subterms(sym.options[i]) : i \in 1..Len(sym.options)}
      [] OTHER -> {}

\* the names of the types that have a strict rule
StrictRules == {n \in NodeKeys(r_nodes) : HasKey(rules, n)}

\* the Head alternatives of the strict rule of type n
HeadsOf(n) ==
    LET body == Get(rules, n)
    IN  IF body.tag = "Sequence" /\ Len(body.items) > 0
           /\ body.items[1].tag = "Choice"
        THEN {body.items[1].options[i] : i \in 1..Len(body.items[1].options)}
        ELSE {}

\* opt is an expression of the receiver's type followed by a call of t
IsCallOn(opt, t) ==
    /\ opt.tag = "Sequence"
    /\ Len(opt.items) >= 2
    /\ opt.items[1] = NonTerminal(t.origin_type)
    /\ opt.items[2] = Terminal("." \o t.name \o "(", FALSE)

\* opt is a call that begins with the text name(
IsCallOf(opt, name) ==
    /\ opt.tag = "Sequence"
    /\ Len(opt.items) >= 1
    /\ opt.items[1] = Terminal(name \o "(", FALSE)

\* sym begins with the tail .name( of t
IsTailCall(sym, t) ==
    /\ sym.tag = "Sequence"
    /\ Len(sym.items) >= 1
    /\ sym.items[1] = Terminal("." \o t.name \o "(", FALSE)

\* C1 as stated: no strict rule has an alternative made of an expression of
\* a type T followed by a call of a method of T that returns another type.
C1_AsStated ==
    \A n \in StrictRules : \A t \in Exits(r_nodes) :
        \A opt \in HeadsOf(n) : ~IsCallOn(opt, t)

\* C1: a method of T that returns U # T is never a tail of T's strict rule
\* or of T_Chain, but the expression "T-expression followed by the call" is
\* a Head alternative of the strict rule of U, the rule the argument slots
\* of type U resolve to.
C1_ExitIsHeadOfTarget ==
    \A t \in Exits(r_nodes) :
        /\ t.return_type \in StrictRules =>
              \E opt \in HeadsOf(t.return_type) : IsCallOn(opt, t)
        /\ \A n \in {t.origin_type, t.origin_type \o "_Chain"} :
              HasKey(rules, n) =>
                  \A sym \in Subterms(Get(rules, n)) : ~IsTailCall(sym, t)

\* a finished build of a domain with an exit whose two types have rules
C1_Witness ==
    /\ pc.at = "done"
    /\ \E t \in Exits(r_nodes) :
          /\ t.return_type \in StrictRules
          /\ HasKey(rules, t.origin_type \o "_Chain")
          /\ \E opt \in HeadsOf(t.return_type) : IsCallOn(opt, t)

\* C2 as stated: once build has finished, for every method of T returning
\* another type U, the rule T_Pipeline is a sequence that contains the tail
\* of the method followed by a reference to U_Pipeline.
C2_AsStated ==
    pc.at = "done" =>
        \A t \in Exits(r_nodes) :
            /\ HasKey(rules, t.origin_type \o "_Pipeline")
            /\ \E sym \in Subterms(Get(rules, t.origin_type \o "_Pipeline")) :
                  /\ IsTailCall(sym, t)
                  /\ sym.items[Len(sym.items)] =
                        NonTerminal(t.return_type \o "_Pipeline")

\* C3 as stated: the strict rule of T is Choice(Heads) followed by a
\* repetition that refers to T_Chain, directly or through the rule the
\* repetition names, and T_Chain is the Choice of the fluent tails of T.
C3_AsStated ==
    \A n \in StrictRules :
        LET body == Get(rules, n)
            near == Refs(body)
            far  == UNION {Refs(Get(rules, m)) : m \in near \cap Keys(rules)}
        IN  /\ body.tag = "Sequence"
            /\ Len(body.items) = 2
            /\ body.items[1].tag = "Choice"
            /\ (n \o "_Chain") \in near \cup far
            /\ HasKey(rules, n \o "_Chain")
            /\ Get(rules, n \o "_Chain").tag = "Choice"

\* C4 as stated: the strict rule of a class with a constructor has a Head
\* alternative that begins with the name of the class and "(", and one that
\* begins with the name of every free function returning the class.
C4_AsStated ==
    \A n \in StrictRules :
        \A t \in {u \in Transitions(r_nodes) :
                     u.return_type = n /\ ~u.is_method} :
            \E opt \in HeadsOf(n) :
                IsCallOf(opt, IF t.name = "__init__" THEN n ELSE t.name)

\* the names of the producers of a node
ProducerNames(n) ==
    {NodeOf(r_nodes, n).producers[j].name :
        j \in 1..Len(NodeOf(r_nodes, n).producers)}

\* reflect was called on the DataFrame domain with (DataFrame, read_csv)
PandasReflected ==
    /\ domain = Pandas
    /\ entrypoints = <<Class("DataFrame"), Function("read_csv")>>
    /\ pc.at = "resolve"
    /\ pc.i = 1

\* C5: reflect(DataFrame, read_csv) returns exactly the nodes DataFrame,
\* int and str; the producers of DataFrame are __init__, read_csv, select
\* and filter, the last two methods of DataFrame; count is a producer of
\* int.
C5_PandasGraph ==
    PandasReflected =>
        /\ Len(nodes) = 3
        /\ {nodes[i] : i \in 1..Len(nodes)} = {"DataFrame", "int", "str"}
        /\ Len(NodeOf(r_nodes, "DataFrame").producers) = 4
        /\ ProducerNames("DataFrame") = {"__init__", "read_csv", "select", "filter"}
        /\ \A t \in Transitions(r_nodes) :
              t.name \in {"select", "filter"} =>
                  t.is_method /\ t.origin_type = "DataFrame"
        /\ "count" \in ProducerNames("int")

\* reflect has returned for that call, the exit count included
C5_Witness ==
    /\ PandasReflected
    /\ \E t \in Exits(r_nodes) : t.name = "count"

-----------------------------------------------------------------------------
(* The Lark backend                                                        *)
(* A visit returns Ok(text) or raises: Raise(exception class).             *)

Ok(text) == [ok |-> TRUE, text |-> text]

Raise(exc) == [ok |-> FALSE, exc |-> exc]

\* ch in text
ContainsChar(text, ch) == \E i \in 1..Len(text) : CharAt(text, i) = ch

\* text.replace(ch, by)
RECURSIVE ReplaceChar(_, _, _)
ReplaceChar(text, ch, by) ==
    IF Len(text) = 0 THEN ""
    ELSE (IF CharAt(text, 1) = ch THEN by ELSE CharAt(text, 1))
         \o ReplaceChar(SubSeq(text, 2, Len(text)), ch, by)

\* sep.join(parts)
RECURSIVE Join(_, _)
Join(parts, sep) ==
    IF Len(parts) = 0 THEN ""
    ELSE IF Len(parts) = 1 THEN parts[1]
    ELSE parts[1] \o sep \o Join(Tail(parts), sep)

LowerOf ==
    [c \in {"A","B","C","D","E","F","G","H","I","J","K","L","M","N","O","P","Q",
            "R","S","T","U","V","W","X","Y","Z"} |->
        CASE c = "A" -> "a" [] c = "B" -> "b" [] c = "C" -> "c" [] c = "D" -> "d"
          [] c = "E" -> "e" [] c = "F" -> "f" [] c = "G" -> "g" [] c = "H" -> "h"
          [] c = "I" -> "i" [] c = "J" -> "j" [] c = "K" -> "k" [] c = "L" -> "l"
          [] c = "M" -> "m" [] c = "N" -> "n" [] c = "O" -> "o" [] c = "P" -> "p"
          [] c = "Q" -> "q" [] c = "R" -> "r" [] c = "S" -> "s" [] c = "T" -> "t"
          [] c = "U" -> "u" [] c = "V" -> "v" [] c = "W" -> "w" [] c = "X" -> "x"
          [] c = "Y" -> "y" [] c = "Z" -> "z"]

\* text.lower()
RECURSIVE Lower(_)
Lower(text) ==
    IF Len(text) = 0 THEN ""
    ELSE (IF CharAt(text, 1) \in DOMAIN LowerOf THEN LowerOf[CharAt(text, 1)]
          ELSE CharAt(text, 1))
         \o Lower(SubSeq(text, 2, Len(text)))

visit_terminal(node) ==
    IF node.value = "" THEN Raise("ValueError")
    ELSE IF node.is_regex
    THEN Ok("/" \o ReplaceChar(node.value, "/", "\\/") \o "/")
    ELSE Ok("\"" \o ReplaceChar(node.value, "\"", "\\\"") \o "\"")

visit_non_terminal(node) == Ok(Lower(node.name))

\* assert False
visit_epsilon(node) == Raise("AssertionError")

\* the results in which a visit raised
Raised(results) == SelectSeq(results, LAMBDA r : ~r.ok)

\* the texts of the results that are not empty
NonEmptyTexts(results) ==
    LET kept == SelectSeq(results, LAMBDA r : r.ok /\ r.text # "")
    IN  [i \in 1..Len(kept) |-> kept[i].text]

\* whether visit_sequence considers wrapping the text of a child
IsWrappedChoice(child) == child.tag = "Choice" /\ Len(child.options) > 1

\* final_parts of visit_sequence from the i-th child on
RECURSIVE FinalParts(_, _, _)
FinalParts(items, parts, i) ==
    IF i > Len(items) THEN <<>>
    ELSE (IF parts[i].text = "" THEN <<>>
          ELSE IF IsWrappedChoice(items[i]) /\ ContainsChar(parts[i].text, "|")
          THEN <<"(" \o parts[i].text \o ")">>
          ELSE <<parts[i].text>>)
         \o FinalParts(items, parts, i + 1)

\* visit_sequence once the children are visited: parts are their results
SequenceText(node, parts) ==
    IF Len(Raised(parts)) > 0 THEN Raised(parts)[1]
    ELSE IF Len(NonEmptyTexts(parts)) = 0 THEN Raise("Exception")
    ELSE Ok(Join(FinalParts(node.items, parts, 1), " "))

\* step 3 of visit_choice
Optional(core, n) ==
    IF n = 1
    THEN IF ContainsChar(core, " ")
            /\ ~(CharAt(core, 1) = "(" /\ CharAt(core, Len(core)) = ")")
         THEN "(" \o core \o ")?"
         ELSE core \o "?"
    ELSE "(" \o core \o ")?"

\* if not compiled_opts: raise Exception
NoOptions == Raise("Exception")

\* visit_choice once the options that are not Epsilon are visited: res are
\* their results
ChoiceText(node, res) ==
    IF Len(Raised(res)) > 0 THEN Raised(res)[1]
    ELSE IF Len(NonEmptyTexts(res)) = 0 THEN NoOptions
    ELSE IF Len(res) < Len(node.options)
            \/ Len(NonEmptyTexts(res)) < Len(res)
    THEN Ok(Optional(Join(NonEmptyTexts(res), " | "), Len(NonEmptyTexts(res))))
    ELSE Ok(Join(NonEmptyTexts(res), " | "))

RECURSIVE Accept(_)

\* child.accept(self) for every child, in order
AcceptAll(children) == [i \in 1..Len(children) |-> Accept(children[i])]

visit_sequence(node) == SequenceText(node, AcceptAll(node.items))

visit_choice(node) ==
    ChoiceText(node,
        AcceptAll(SelectSeq(node.options, LAMBDA c : c.tag # "Epsilon")))

\* symbol.accept(visitor)
Accept(node) ==
    CASE node.tag = "Terminal"    -> visit_terminal(node)
      [] node.tag = "Sequence"    -> visit_sequence(node)
      [] node.tag = "Choice"      -> visit_choice(node)
      [] node.tag = "NonTerminal" -> visit_non_terminal(node)
      [] node.tag = "Epsilon"     -> visit_epsilon(node)

\* the line of a rule whose body was visited
RuleLine(name, definition) ==
    Lower(name) \o ": "
    \o (IF definition.text = "" THEN "\"\"" ELSE definition.text)

\* LarkCompiler.compile(grammar) for the rule map rs
LarkCompile(rs) ==
    LET defs == [i \in 1..Len(rs) |-> Accept(rs[i].body)]
    IN  IF Len(Raised(defs)) > 0 THEN Raised(defs)[1]
        ELSE Ok(Join(<<"start: root">>
                     \o [i \in 1..Len(rs) |-> RuleLine(rs[i].name, defs[i])],
                     "\n"))

-----------------------------------------------------------------------------
(* Grammar.register, Grammar.compile, Grammar.template                     *)

\* the keys of an ordered dict, in order
KeySeq(d) == [i \in 1..Len(d) |-> d[i].name]

\* an exception with its message
RaiseMsg(exc, msg) == [ok |-> FALSE, exc |-> exc, msg |-> msg]

\* a Compiler instance of class cls
Compiler(cls) == [tag |-> "Compiler", cls |-> cls]

\* backend.compile(self): the Lark backend renders; the text the other
\* backends produce is left open
BackendCompile(cls, rs) ==
    IF cls = "LarkCompiler" THEN LarkCompile(rs) ELSE Ok("<" \o cls \o ">")

\* a compile that does not look for the root rule
compileWithoutRootCheck(rs, reg, backend) ==
    IF IsStr(backend)
    THEN IF ~HasKey(reg, backend.value)
         THEN [ret |-> RaiseMsg("ValueError",
                          "Unknown backend: '" \o backend.value
                          \o "'. Available: " \o Join(KeySeq(reg), ", ")),
               made |-> <<>>, invoked |-> <<>>]
         ELSE [ret |-> BackendCompile(Get(reg, backend.value), rs),
               made |-> <<Get(reg, backend.value)>>,
               invoked |-> <<Get(reg, backend.value)>>]
    ELSE [ret |-> BackendCompile(backend.cls, rs),
          made |-> <<>>, invoked |-> <<backend.cls>>]

\* Grammar.compile(backend): what it returns or raises (ret), the backend
\* classes it instantiated (made) and the backend it invoked (invoked)
compile(rs, reg, backend) ==
    IF ~HasKey(rs, "root")
    THEN [ret |-> RaiseMsg("RuntimeError", "No root symbol defined"),
          made |-> <<>>, invoked |-> <<>>]
    ELSE IF IsStr(backend)
    THEN IF ~HasKey(reg, backend.value)
         THEN [ret |-> RaiseMsg("ValueError",
                          "Unknown backend: '" \o backend.value
                          \o "'. Available: " \o Join(KeySeq(reg), ", ")),
               made |-> <<>>, invoked |-> <<>>]
         ELSE [ret |-> BackendCompile(Get(reg, backend.value), rs),
               made |-> <<Get(reg, backend.value)>>,
               invoked |-> <<Get(reg, backend.value)>>]
    ELSE [ret |-> BackendCompile(backend.cls, rs),
          made |-> <<>>, invoked |-> <<backend.cls>>]

\* one tuple of Formatter().parse: field_name is None or Str(name)
Parsed(literal, field_name) == [literal |-> literal, field_name |-> field_name]

\* the position of the first "}" of fmt at or after i, 0 when there is none
RECURSIVE Closing(_, _)
Closing(fmt, i) ==
    IF i > Len(fmt) THEN 0
    ELSE IF CharAt(fmt, i) = "}" THEN i
    ELSE Closing(fmt, i + 1)

\* Formatter().parse(fmt) from position i on, literal being the literal
\* text read so far; a malformed format ends with a tuple whose field_name
\* is ValueError
RECURSIVE ParseFormat(_, _, _)
ParseFormat(fmt, i, literal) ==
    IF i > Len(fmt)
    THEN IF literal = "" THEN <<>> ELSE <<Parsed(literal, None)>>
    ELSE IF CharAt(fmt, i) = "{"
    THEN IF i < Len(fmt) /\ CharAt(fmt, i + 1) = "{"
         THEN <<Parsed(literal \o "{", None)>> \o ParseFormat(fmt, i + 2, "")
         ELSE IF Closing(fmt, i) = 0 THEN <<Parsed(literal, ValueError)>>
         ELSE <<Parsed(literal, Str(SubSeq(fmt, i + 1, Closing(fmt, i) - 1)))>>
              \o ParseFormat(fmt, Closing(fmt, i) + 1, "")
    ELSE IF CharAt(fmt, i) = "}"
    THEN IF i < Len(fmt) /\ CharAt(fmt, i + 1) = "}"
         THEN <<Parsed(literal \o "}", None)>> \o ParseFormat(fmt, i + 2, "")
         ELSE <<Parsed(literal, ValueError)>>
    ELSE ParseFormat(fmt, i + 1, literal \o CharAt(fmt, i))

\* a lookup in the keyword arguments alone
LookupKwargsOnly(kwargs, field_name) ==
    IF HasKey(kwargs, field_name) THEN Get(kwargs, field_name) ELSE None

\* kwargs.get(field_name) or getattr(self, field_name)
Lookup(kwargs, field_name) ==
    IF HasKey(kwargs, field_name) /\ Truthy(Get(kwargs, field_name))
    THEN Get(kwargs, field_name)
    ELSE GetAttr(field_name)

\* the symbols one tuple of the parse appends
TemplateSymbols(kwargs, tuple) ==
    (IF tuple.literal # "" THEN <<Terminal(tuple.literal, FALSE)>> ELSE <<>>)
    \o (IF Truthy(tuple.field_name)
        THEN <<Lookup(kwargs, tuple.field_name.value)>> ELSE <<>>)

RECURSIVE Concat(_)
Concat(seqs) ==
    IF Len(seqs) = 0 THEN <<>> ELSE Head(seqs) \o Concat(Tail(seqs))

\* Grammar.template(fmt, **kwargs)
template(fmt, kwargs) ==
    LET tuples == ParseFormat(fmt, 1, "")
    IN  IF \E i \in 1..Len(tuples) : tuples[i].field_name = ValueError
        THEN Raise("ValueError")
        ELSE [ok |-> TRUE,
              value |-> Sequence(Concat([i \in 1..Len(tuples) |->
                                            TemplateSymbols(kwargs, tuples[i])]))]

-----------------------------------------------------------------------------
(* The container used by hand: rules defined, backends registered, the     *)
(* grammar compiled, templates expanded                                    *)

ContainerNames == {"root", "a"}

ContainerValues ==
    { Str("x"),
      NonTerminal("a"),
      Choice(<<>>),
      Choice(<<Epsilon>>),
      Choice(<<Terminal("b", FALSE), Epsilon>>),
      Sequence(<<Terminal("a ", FALSE),
                 Choice(<<Terminal("b", FALSE), Terminal("c", FALSE)>>)>>),
      Sequence(<<Choice(<<Choice(<<Terminal("b", FALSE),
                                   Terminal("c", FALSE)>>)>>),
                 Terminal("d", FALSE)>>),
      Choice(<<Sequence(<<Choice(<<Terminal("b", FALSE), Terminal("c", FALSE)>>),
                          Terminal("d", FALSE),
                          Choice(<<Terminal("b", FALSE), Terminal("c", FALSE)>>)>>),
               Epsilon>>) }

CompileBackends ==
    {Str("gbnf"), Str("lark"), Str("mine"), Str("json"), Compiler("LarkCompiler")}

Formats == {"# {title}: {content}", "{k}={v}", "plain", "{a}", "{", "{}"}

KwargSets ==
    { <<>>,
      <<[name |-> "k", body |-> regex("[a-z]+")],
        [name |-> "v", body |-> NonTerminal("a")]>> }

\* Grammar.register(name, factory)
RegisterBackend(name, factory) ==
    /\ _backends' = Put(_backends, name, factory)
    /\ g_prev' = rules
    /\ g_last' = [op |-> "register", name |-> name, factory |-> factory]
    /\ g_ret' = None
    /\ UNCHANGED <<rules, dvars, d_nodes>>

\* g.compile(backend)
Compile(backend) ==
    /\ g_prev' = rules
    /\ g_last' = [op |-> "compile", backend |-> backend]
    /\ g_ret' = compile(rules, _backends, backend)
    /\ UNCHANGED <<rules, dvars, _backends, d_nodes>>

\* g.template(fmt, **kwargs)
Template(fmt, kwargs) ==
    /\ g_prev' = rules
    /\ g_last' = [op |-> "template", fmt |-> fmt, kwargs |-> kwargs]
    /\ g_ret' = template(fmt, kwargs)
    /\ UNCHANGED <<rules, dvars, _backends, d_nodes>>

NextContainer ==
    \/ \E name \in ContainerNames, value \in ContainerValues : Define(name, value)
    \/ \E name \in {"mine", "lark"}, factory \in {"LarkCompiler", "RegexCompiler"} :
          RegisterBackend(name, factory)
    \/ \E backend \in CompileBackends : Compile(backend)
    \/ \E fmt \in Formats, kwargs \in KwargSets : Template(fmt, kwargs)

SpecContainer == InitGrammar /\ [][NextContainer]_vars

\* sub occurs in text
IsSubstring(sub, text) ==
    \E i \in 1..(Len(text) - Len(sub) + 1) :
        SubSeq(text, i, i + Len(sub) - 1) = sub

\* whether compile may hand the grammar to a backend
MayCompile(rs, reg, backend) ==
    HasKey(rs, "root") /\ (IsStr(backend) => HasKey(reg, backend.value))

\* C11: a compile step invokes a backend exactly when the grammar has a
\* root and a string key is registered; otherwise it raises, RuntimeError
\* without a root and else ValueError with a message that holds every
\* registered key, and instantiates no backend; the rule map and the
\* registry are left as they were.
C11_CompileGuards ==
    [][g_last'.op = "compile" =>
          /\ rules' = rules
          /\ _backends' = _backends
          /\ (Len(g_ret'.invoked) > 0
                <=> MayCompile(rules, _backends, g_last'.backend))
          /\ ~MayCompile(rules, _backends, g_last'.backend) =>
                /\ ~g_ret'.ret.ok
                /\ g_ret'.made = <<>>
                /\ g_ret'.ret.exc =
                      (IF HasKey(rules, "root") THEN "ValueError"
                       ELSE "RuntimeError")
                /\ HasKey(rules, "root") =>
                      \A k \in Keys(_backends) : IsSubstring(k, g_ret'.ret.msg)]_vars

\* a compile refused for an unknown key, one refused for want of a root
\* with a registered key, and one handed to a backend have all happened
C11_Witness ==
    /\ g_last.op = "compile"
    /\ g_last.backend = Str("json")
    /\ HasKey(rules, "root")
    /\ ~g_ret.ret.ok
    /\ Len(_backends) = 4

\* C12 as stated: template raises whenever the format has a field that is
\* neither a key of the keyword arguments nor the name of a defined rule.
C12_AsStated ==
    g_last.op = "template" =>
        LET tuples == ParseFormat(g_last.fmt, 1, "")
        IN  (\E i \in 1..Len(tuples) :
                /\ Truthy(tuples[i].field_name)
                /\ tuples[i].field_name # ValueError
                /\ ~HasKey(g_last.kwargs, tuples[i].field_name.value)
                /\ ~HasKey(rules, tuples[i].field_name.value))
            => ~g_ret.ok

\* the named fields of a parsed format
FieldNames(tuples) ==
    {tuples[i].field_name.value :
        i \in {j \in 1..Len(tuples) : /\ tuples[j].field_name # ValueError
                                      /\ Truthy(tuples[j].field_name)}}

\* the format of the last template call cannot be parsed
Malformed(tuples) == \E i \in 1..Len(tuples) : tuples[i].field_name = ValueError

\* C12: template raises only for a format that cannot be parsed; a field
\* that is not among the keyword arguments resolves to the reference
\* NonTerminal(field), whether or not a rule of that name is defined.
C12_UnknownFieldIsForwardReference ==
    g_last.op = "template" =>
        LET tuples == ParseFormat(g_last.fmt, 1, "")
        IN  /\ g_ret.ok <=> ~Malformed(tuples)
            /\ g_ret.ok =>
                  \A f \in FieldNames(tuples) :
                      ~HasKey(g_last.kwargs, f) =>
                          \E i \in 1..Len(g_ret.value.items) :
                              g_ret.value.items[i] = NonTerminal(f)

\* a template over two fields that are neither keyword arguments nor rules
C12_Witness ==
    /\ g_last.op = "template"
    /\ g_last.fmt = "# {title}: {content}"
    /\ g_last.kwargs = <<>>
    /\ ~HasKey(rules, "title")
    /\ g_ret.ok
    /\ g_ret.value = Sequence(<<Terminal("# ", FALSE), NonTerminal("title"),
                                Terminal(": ", FALSE), NonTerminal("content")>>)

\* C13 as stated: once a rule has been defined on a fresh grammar, compile
\* does not fail for want of a root.
C13_AsStated ==
    (g_last.op = "compile" /\ Len(rules) > 0) =>
        (g_ret.ret.ok \/ g_ret.ret.exc # "RuntimeError")

\* a Choice none of whose options is a real one
ZeroRealOptions(sym) ==
    /\ sym.tag = "Choice"
    /\ \A i \in 1..Len(sym.options) : sym.options[i].tag = "Epsilon"

\* the last call was a compile that the Lark backend carried out
LarkCompiled == g_last.op = "compile" /\ g_ret.invoked = <<"LarkCompiler">>

\* C16 as stated: when the Lark backend compiles a grammar in which a rule
\* body is a Choice with no real option (and nothing else fails), the
\* compilation does not raise, the Choice renders to the empty text and
\* the rule is emitted as the line  name: "".
C16_AsStated ==
    (/\ LarkCompiled
     /\ \E i \in 1..Len(rules) : ZeroRealOptions(rules[i].body)
     /\ \A i \in 1..Len(rules) :
           ZeroRealOptions(rules[i].body) \/ Accept(rules[i].body).ok)
    => /\ g_ret.ret.ok
       /\ \A i \in 1..Len(rules) :
             ZeroRealOptions(rules[i].body) =>
                 /\ Accept(rules[i].body) = Ok("")
                 /\ IsSubstring(Lower(rules[i].name) \o ": \"\"", g_ret.ret.text)

\* C17 as stated: in what the Lark backend returns, every Choice child of a
\* Sequence rule body whose text contains "|" stands in parentheses,
\* whatever the number of its options.
C17_AsStated ==
    (LarkCompiled /\ g_ret.ret.ok) =>
        \A i \in 1..Len(rules) :
            rules[i].body.tag = "Sequence" =>
                \A j \in 1..Len(rules[i].body.items) :
                    (/\ rules[i].body.items[j].tag = "Choice"
                     /\ ContainsChar(Accept(rules[i].body.items[j]).text, "|"))
                    => IsSubstring(
                          "(" \o Accept(rules[i].body.items[j]).text \o ")",
                          g_ret.ret.text)

\* the same for the Choice children with more than one option, which is
\* what visit_sequence tests
C17_MultiOptionWrapped ==
    (LarkCompiled /\ g_ret.ret.ok) =>
        \A i \in 1..Len(rules) :
            rules[i].body.tag = "Sequence" =>
                \A j \in 1..Len(rules[i].body.items) :
                    (/\ IsWrappedChoice(rules[i].body.items[j])
                     /\ ContainsChar(Accept(rules[i].body.items[j]).text, "|"))
                    => IsSubstring(
                          "(" \o Accept(rules[i].body.items[j]).text \o ")",
                          g_ret.ret.text)

-----------------------------------------------------------------------------
(* Properties of Reflector.reflect                                         *)

\* the seeding of the reflector stopped at an entrypoint that is neither a
\* class nor a callable
SeedRaised ==
    /\ pc.at = "failed"
    /\ pc.i \in 1..Len(entrypoints)
    /\ entrypoints[pc.i].kind = "other"

\* C14 as stated: when reflect raises for an entrypoint that is neither a
\* class nor a callable, whatever its position, the node map and the queue
\* (and so the producer lists) are as before the call, that is, empty.
C14_AsStated == SeedRaised => (r_nodes = <<>> /\ r_queue = <<>>)

\* the domain without the operations whose type hints cannot be resolved
WithoutUnresolvable(dom) ==
    [classes |->
        [i \in 1..Len(dom.classes) |->
            [dom.classes[i] EXCEPT
                !.members = SelectSeq(@, LAMBDA f : f.hints_ok)]],
     functions |-> SelectSeq(dom.functions, LAMBDA f : f.hints_ok)]

\* the entrypoint is a function whose type hints cannot be resolved
IsUnresolvable(dom, obj) ==
    obj.kind = "function" /\ ~FunctionOf(dom, obj.name).hints_ok

\* C15: an operation whose type hints cannot be resolved does not make
\* reflect raise, and every step of reflect leaves the node map, the
\* producers and the queue as the same step does on the domain without
\* that operation: seeding with it changes nothing, scanning a class that
\* has it is scanning the class without it.
C15_UnresolvableOperationIsSkipped ==
    [][pc.at = "reflect" =>
          IF pc.i <= Len(entrypoints)
          THEN IsUnresolvable(domain, entrypoints[pc.i]) =>
                  /\ r_nodes' = r_nodes
                  /\ r_queue' = r_queue
                  /\ pc'.at = "reflect"
          ELSE Len(r_queue) > 0 =>
                  /\ [nodes |-> r_nodes', queue |-> r_queue']
                        = _analyze_class(WithoutUnresolvable(domain),
                             [nodes |-> r_nodes, queue |-> Tail(r_queue)],
                             Head(r_queue))
                  /\ pc'.at = "reflect"]_vars

\* reflect has returned for an unresolvable function and a class that has
\* an unresolvable method, with the other methods of the class registered
C15_Witness ==
    /\ domain = Box
    /\ entrypoints = <<Function("lam"), Class("Box")>>
    /\ pc.at = "resolve"
    /\ NodeKeys(r_nodes) = {"Box", "list", "set", "int"}
    /\ Len(NodeOf(r_nodes, "Box").producers) = 2

-----------------------------------------------------------------------------
(* Properties of the grammar DomainGenerator.build returns                 *)

\* C18 as stated: in the grammar build returns, every NonTerminal of the
\* root and of every rule body names a defined rule.
C18_AsStated == pc.at = "done" => Closed(rules)

-----------------------------------------------------------------------------
(* One Reflector, reflect called on it time and again                      *)

MaxCalls == 2

\* the Reflector after __init__
NewReflector == [nodes |-> <<>>, queue |-> <<>>]

\* step 1 of reflect from the i-th entrypoint on; raised tells whether the
\* loop met an object that is neither a class nor a callable
RECURSIVE SeedAll(_, _, _, _)
SeedAll(dom, r, objs, i) ==
    IF i > Len(objs) THEN [r |-> r, raised |-> FALSE]
    ELSE IF objs[i].kind = "class"
    THEN SeedAll(dom, _get_or_create_node(dom, r, objs[i].name), objs, i + 1)
    ELSE IF objs[i].kind = "function"
    THEN SeedAll(dom, _analyze_function(dom, r, FunctionOf(dom, objs[i].name),
                                        NoNode), objs, i + 1)
    ELSE [r |-> r, raised |-> TRUE]

\* step 2 of reflect: the queue is scanned until it is empty
RECURSIVE ScanAll(_, _)
ScanAll(dom, r) ==
    IF Len(r.queue) = 0 THEN r
    ELSE ScanAll(dom, _analyze_class(dom, [r EXCEPT !.queue = Tail(@)],
                                     Head(r.queue)))

\* what reflect leaves and returns once the entrypoints are seeded
Scanned(dom, seeded) ==
    IF seeded.raised THEN [r |-> seeded.r, ret |-> ValueError, raised |-> TRUE]
    ELSE [r |-> ScanAll(dom, seeded.r), ret |-> ScanAll(dom, seeded.r).nodes,
          raised |-> FALSE]

\* Reflector.reflect of the entrypoints on the reflector r
reflect(dom, r, objs) == Scanned(dom, SeedAll(dom, r, objs, 1))

InitReflector ==
    /\ _backends = Registered
    /\ domain \in Domains
    /\ entrypoints = <<>>
    /\ pc = [at |-> "new", i |-> 0]
    /\ r_nodes = <<>>
    /\ r_queue = <<>>
    /\ nodes = <<>>
    /\ cache = <<>>
    /\ d_nodes = <<>>
    /\ rules = <<>>
    /\ g_prev = <<>>
    /\ g_last = [op |-> "init"]
    /\ g_ret = None

\* reflector.reflect of the objects objs; pc.i counts the calls
Reflect(objs) ==
    /\ pc.i < MaxCalls
    /\ LET res == reflect(domain, [nodes |-> r_nodes, queue |-> r_queue], objs)
       IN  /\ r_nodes' = res.r.nodes
           /\ r_queue' = res.r.queue
           /\ g_ret' = res.ret
           /\ pc' = [at |-> IF res.raised THEN "raised" ELSE "returned",
                     i |-> pc.i + 1]
    /\ entrypoints' = objs
    /\ g_last' = [op |-> "reflect"]
    /\ UNCHANGED <<domain, nodes, cache, rules, g_prev, _backends, d_nodes>>

NextReflector ==
    \E objs \in Tuples(Entries(domain), MaxEntrypoints) : Reflect(objs)

SpecReflector == InitReflector /\ [][NextReflector]_vars

\* C19 as stated: what a reflect call returns is what a new Reflector
\* returns for the same entrypoints, whatever calls were made before.
C19_AsStated ==
    pc.at = "returned" => g_ret = reflect(domain, NewReflector, entrypoints).ret

\* the types of the reflected nodes that get a rule body: all but the
\* primitives nothing produces
TypesWithBody ==
    {nodes[i] : i \in {j \in 1..Len(nodes) :
        ~(/\ nodes[j] \in Primitives
          /\ Len(NodeOf(r_nodes, nodes[j]).producers) = 0)}}

\* C20: the cache records a type before its body is built, so no type is
\* entered twice: the cache never holds one type more than once, a type
\* that is being resolved or was resolved is in it, and once build has
\* gone through the nodes, of a graph with cycles as of any other, every
\* type with a body has its forward reference and its rule.
C20_BodyBuiltOnce ==
    /\ Len(cache) = Cardinality(CacheKeys(cache))
    /\ pc.at \in {"root", "done"} =>
          \A t \in TypesWithBody :
              /\ IsCached(cache, t)
              /\ CacheGet(cache, t) = NonTerminal(TypeName(t))
              /\ HasKey(rules, TypeName(t))

\* build has returned for two classes that refer to each other: the body
\* of B was built while that of A was, with A taken from the cache
C20_Witness ==
    /\ domain = Graph
    /\ pc.at = "done"
    /\ entrypoints = <<Class("A")>>
    /\ CacheKeys(cache) = {"A", "B"}
    /\ "A" \in Refs(Get(rules, "B"))
    /\ "B" \in Refs(Get(rules, "A"))

-----------------------------------------------------------------------------
(* The scan queue of reflect                                               *)

\* the types of the signatures of a sequence of operations
TypesOfSignatures(fns) ==
    UNION {{Origin(fns[i].ret)}
           \cup {Origin(fns[i].params[k].type) : k \in 1..Len(fns[i].params)}
              : i \in 1..Len(fns)}

\* the types a domain and the entrypoints can make reflect meet
DomainTypes(dom, objs) ==
    ClassNames(dom)
    \cup {objs[i].name : i \in {k \in 1..Len(objs) : objs[k].kind = "class"}}
    \cup TypesOfSignatures(dom.functions)
    \cup UNION {TypesOfSignatures(dom.classes[i].members) :
                   i \in 1..Len(dom.classes)}

\* what is left for the scan loop to do: the queue, and twice the types
\* not met yet, which a step may still create and queue
Variant(ns, queue) ==
    Len(queue) + 2 * Cardinality(DomainTypes(domain, entrypoints) \ NodeKeys(ns))

\* the elements of a sequence are pairwise different
Distinct(seq) == \A i, j \in 1..Len(seq) : seq[i] = seq[j] => i = j

\* what a step of reflect appends to the queue: base is the queue the step
\* starts from, the whole queue or, for a scan, the queue without its head
Enqueued(base, after) == SubSeq(after, Len(base) + 1, Len(after))

QueueBase == IF pc.i > Len(entrypoints) THEN Tail(r_queue) ELSE r_queue

\* C21: a step of reflect only appends to the queue, and only nodes the
\* step itself created, each once; so a node is queued at most once and
\* scanned at most once whatever the number of signatures that reach it;
\* and every scan brings the natural number Variant down, so the scan loop
\* and reflect come to an end.
C21_QueuedOnce ==
    /\ [][(pc.at = "reflect" /\ (pc.i <= Len(entrypoints) \/ Len(r_queue) > 0)) =>
             /\ Len(r_queue') >= Len(QueueBase)
             /\ SubSeq(r_queue', 1, Len(QueueBase)) = QueueBase
             /\ Distinct(Enqueued(QueueBase, r_queue'))
             /\ \A k \in 1..Len(Enqueued(QueueBase, r_queue')) :
                   /\ Enqueued(QueueBase, r_queue')[k] \notin NodeKeys(r_nodes)
                   /\ Enqueued(QueueBase, r_queue')[k] \in NodeKeys(r_nodes')]_vars
    /\ [](Distinct(r_queue) /\ \A k \in 1..Len(r_queue) : r_queue[k] \in NodeKeys(r_nodes))
    /\ [][(pc.at = "reflect" /\ pc.i > Len(entrypoints) /\ Len(r_queue) > 0) =>
             Variant(r_nodes', r_queue') < Variant(r_nodes, r_queue)]_vars

\* reflect has returned for two classes that reach each other and
\* themselves through several signatures
C21_Witness ==
    /\ domain = Graph
    /\ entrypoints = <<Class("A"), Class("B")>>
    /\ pc.at = "resolve"
    /\ nodes = <<"A", "B", "int">>
    /\ r_queue = <<>>
    /\ Len(NodeOf(r_nodes, "A").producers) = 3
    /\ Len(NodeOf(r_nodes, "B").producers) = 3

-----------------------------------------------------------------------------
(* cleanup(): the root, the surviving rules, the epsilon set               *)

\* C22 as stated: when root is defined and its body is not epsilon,
\* cleanup() leaves root defined with the body the prune step gives for
\* the body it had, and adds no rule name.
C22_AsStated ==
    (/\ g_last.op = "cleanup"
     /\ HasKey(g_prev, "root")
     /\ "root" \notin EpsilonRules(g_prev))
    => /\ HasKey(rules, "root")
       /\ Get(rules, "root")
             = _prune_symbol(Get(g_prev, "root"), EpsilonRules(g_prev))
       /\ Keys(rules) \subseteq Keys(g_prev)

\* C23 as stated: after cleanup() no rule of the map, root included, has a
\* body that is Epsilon or epsilon by the definition of step 1.
C23_AsStated ==
    g_last.op = "cleanup" =>
        \A i \in 1..Len(rules) :
            /\ rules[i].body # Epsilon
            /\ ~_is_symbol_epsilon(rules[i].body, EpsilonRules(rules))

\* rule maps with the rules of rs in every order
Orders(rs) ==
    {p \in [1..Len(rs) -> 1..Len(rs)] : \A i, j \in 1..Len(rs) : p[i] = p[j] => i = j}

Reordered(rs, p) == [i \in 1..Len(rs) |-> rs[p[i]]]

\* a rule is in E whenever its body is epsilon relative to E
EpsilonClosed(rs, E) ==
    \A i \in 1..Len(rs) : _is_symbol_epsilon(rs[i].body, E) => rs[i].name \in E

\* C24: the set step 1 of cleanup() computes for the rule map it was
\* called on holds a rule exactly when its body is epsilon relative to the
\* set, is contained in every set of rule names closed in that way (it is
\* the least one), and is the same for every order of the rule map.
C24_LeastEpsilonSet ==
    g_last.op = "cleanup" =>
        LET E == EpsilonRules(g_prev)
        IN  /\ E \subseteq Keys(g_prev)
            /\ \A i \in 1..Len(g_prev) :
                  g_prev[i].name \in E <=> _is_symbol_epsilon(g_prev[i].body, E)
            /\ \A S \in SUBSET Keys(g_prev) : EpsilonClosed(g_prev, S) => E \subseteq S
            /\ \A p \in Orders(g_prev) : EpsilonRules(Reordered(g_prev, p)) = E

\* cleanup() ran on a map where two rules refer to each other without an
\* Epsilon base, next to a rule that is epsilon
C24_Witness ==
    /\ g_last.op = "cleanup"
    /\ Keys(g_prev) = {"root", "a", "b"}
    /\ Get(g_prev, "a") = NonTerminal("b")
    /\ Get(g_prev, "b") = NonTerminal("a")
    /\ EpsilonRules(g_prev) = {"root"}

-----------------------------------------------------------------------------
(* The root options of function entrypoints                                *)

\* whether reflect registers a Transition for a function
HasTransition(func) ==
    /\ func.hints_ok
    /\ func.ret # NoReturnHint
    /\ func.ret # "None"
    /\ ~(CharAt(func.name, 1) = "_")

\* what _resolve_type returns for the type of a node once build is over
SymbolOf(py_type) ==
    IF py_type \in Primitives /\ Len(NodeOf(r_nodes, py_type).producers) = 0
    THEN render_primitive(py_type)
    ELSE NonTerminal(TypeName(py_type))

\* the root option of a function entrypoint: the Head call of its own
\* transition, then the Pipeline of its return type
OwnOption(func) ==
    Plus(render_head(func.name,
                     [i \in 1..Len(ParamNodes(func.params)) |->
                         [name |-> ParamNodes(func.params)[i].name,
                          sym  |-> SymbolOf(ParamNodes(func.params)[i].type)]],
                     None),
         NonTerminal(TypeName(Origin(func.ret)) \o "_Pipeline"))

\* C25 as stated: when build returns, the root choice has, for every
\* function entrypoint that has a transition, the option made of the Head
\* call of that transition and the Pipeline of its return type.
C25_AsStated ==
    pc.at = "done" =>
        \A i \in 1..Len(entrypoints) :
            (/\ entrypoints[i].kind = "function"
             /\ HasTransition(FunctionOf(domain, entrypoints[i].name)))
            => \E k \in 1..Len(Get(rules, "root").options) :
                  Get(rules, "root").options[k]
                     = OwnOption(FunctionOf(domain, entrypoints[i].name))

-----------------------------------------------------------------------------
(* The nodes of reflect: leaf types, void, constructors                    *)

\* C26 as stated: no node of a leaf type (integer, string, float, boolean,
\* list, mapping, set) is ever on the scan queue, while such a type met in
\* a signature that was analysed has its node.
C26_AsStated ==
    /\ \A k \in 1..Len(r_queue) : r_queue[k] \notin Builtins
    /\ pc.at = "resolve" =>
          \A i \in 1..Len(r_nodes) : \A j \in 1..Len(r_nodes[i].producers) :
              \A q \in 1..Len(r_nodes[i].producers[j].params) :
                  r_nodes[i].producers[j].params[q].type \in NodeKeys(r_nodes)

\* the operations reflect has analysed once it returns: the functions
\* among the entrypoints and the members of the classes that have a node
Analysed ==
    {FunctionOf(domain, entrypoints[i].name) :
        i \in {k \in 1..Len(entrypoints) : entrypoints[k].kind = "function"}}
    \cup UNION {{Members(domain, c)[m] : m \in 1..Len(Members(domain, c))} :
                  c \in NodeKeys(r_nodes) \cap ClassNames(domain)}

\* the nodes whose producers hold a transition of that name
ProducedOn(name) ==
    {r_nodes[i].py_type :
        i \in {k \in 1..Len(r_nodes) :
                 \E j \in 1..Len(r_nodes[k].producers) :
                     r_nodes[k].producers[j].name = name}}

\* C27 as stated: once reflect has returned, an analysed operation that
\* returns None has its Transition in the producers of the no-return
\* sentinel node and of no other node.
C27_AsStated ==
    pc.at = "resolve" =>
        \A f \in Analysed :
            (f.ret = "None" /\ f.hints_ok /\ CharAt(f.name, 1) # "_")
            => ProducedOn(f.name) = {"NoReturn"}

\* the constructors of the classes of the domain, by class
ConstructorsOf(c) ==
    {Members(domain, c)[m] :
        m \in {k \in 1..Len(Members(domain, c)) :
                 Members(domain, c)[k].name = "__init__"}}

\* C28: in the graph of reflect, and as build goes on using it, every
\* Transition in the producers of a node has that node as its return_type
\* and is a method exactly when it has an origin; a constructor Transition
\* has no origin, is no method, and stands in the producers of the class
\* that owns the constructor, with the parameters of that constructor.
C28_ProducersWellFormed ==
    \A i \in 1..Len(r_nodes) : \A j \in 1..Len(r_nodes[i].producers) :
        LET t == r_nodes[i].producers[j]
        IN  /\ t.return_type = r_nodes[i].py_type
            /\ t.is_method <=> t.origin_type # NoNode
            /\ t.name = "__init__" =>
                  /\ t.origin_type = NoNode
                  /\ ~t.is_method
                  /\ \E f \in ConstructorsOf(r_nodes[i].py_type) :
                        t.params = ParamNodes(f.params)

\* reflect has returned a graph with a constructor, methods of two classes
\* registered on the same node and free functions
C28_Witness ==
    /\ domain = Graph
    /\ pc.at = "resolve"
    /\ entrypoints = <<Class("B")>>
    /\ ProducedOn("__init__") = {"A", "B"}
    /\ ProducedOn("back") = {"A"}
    /\ ProducedOn("to_b") = {"B"}

-----------------------------------------------------------------------------
(* The optional form of the Lark backend                                   *)

\* the nesting of parentheses after the character ch, outside quotes
DepthAfter(ch, depth, quoted) ==
    IF quoted THEN depth
    ELSE IF ch = "(" THEN depth + 1
    ELSE IF ch = ")" THEN depth - 1
    ELSE depth

\* whether text has, from position i on, a blank or a bar outside quotes
\* and parentheses
RECURSIVE HasTopLevelBreak(_, _, _, _)
HasTopLevelBreak(text, i, depth, quoted) ==
    IF i > Len(text) THEN FALSE
    ELSE IF CharAt(text, i) = "\"" THEN HasTopLevelBreak(text, i + 1, depth, ~quoted)
    ELSE IF ~quoted /\ depth = 0 /\ CharAt(text, i) \in {" ", "|"} THEN TRUE
    ELSE HasTopLevelBreak(text, i + 1,
                          DepthAfter(CharAt(text, i), depth, quoted), quoted)

\* the position, from i on, where the nesting comes back to 0; 0 if none
RECURSIVE ClosingParen(_, _, _, _)
ClosingParen(text, i, depth, quoted) ==
    IF i > Len(text) THEN 0
    ELSE IF CharAt(text, i) = "\"" THEN ClosingParen(text, i + 1, depth, ~quoted)
    ELSE IF DepthAfter(CharAt(text, i), depth, quoted) = 0 /\ ~quoted
            /\ CharAt(text, i) = ")"
    THEN i
    ELSE ClosingParen(text, i + 1,
                      DepthAfter(CharAt(text, i), depth, quoted), quoted)

\* text is one token, or stands in one pair of parentheses
IsUnit(text) ==
    \/ ~HasTopLevelBreak(text, 1, 0, FALSE)
    \/ /\ Len(text) > 1
       /\ CharAt(text, 1) = "("
       /\ ClosingParen(text, 1, 0, FALSE) = Len(text)

\* a Choice with an Epsilon option and an option that is not one
HasEmptyAndReal(sym) ==
    /\ sym.tag = "Choice"
    /\ \E i \in 1..Len(sym.options) : sym.options[i].tag = "Epsilon"
    /\ \E i \in 1..Len(sym.options) : sym.options[i].tag # "Epsilon"

\* C30 as stated: in what the Lark backend returns, a rule body that is a
\* Choice with an empty and a real option renders to a text ending in "?",
\* and what precedes the "?" is one token or one parenthesized group.
C30_AsStated ==
    (LarkCompiled /\ g_ret.ret.ok) =>
        \A i \in 1..Len(rules) :
            HasEmptyAndReal(rules[i].body) =>
                LET text == Accept(rules[i].body).text
                IN  /\ CharAt(text, Len(text)) = "?"
                    /\ IsUnit(SubSeq(text, 1, Len(text) - 1))

-----------------------------------------------------------------------------
(* Domain (domain/core.py): the graph of types                             *)
(* Domain.nodes is a sequence of Nodes [py_type, name, outgoing, incoming, *)
(* scanned]; an Edge is [name, source, target, params] and refers to its   *)
(* Nodes by their py_type, which is what Node.__eq__ compares.             *)

VoidType == "VoidType"

NoReturn == "NoReturn"

KeyError == [exc |-> "KeyError"]

\* self.primitives
DomainPrimitives == {"int", "str", "float", "bool", "list", "dict", "set"}

Node(py_type, name) ==
    [py_type |-> py_type, name |-> name, outgoing |-> <<>>, incoming |-> <<>>,
     scanned |-> FALSE]

Edge(name, source, target, params) ==
    [name |-> name, source |-> source, target |-> target, params |-> params]

\* Domain._get_or_create_node: the nodes once py_type has one
GetOrCreate(d, py_type) ==
    LET origin == Origin(py_type)
    IN  IF origin \in NodeKeys(d) THEN d
        ELSE Append(d, Node(origin, TypeName(origin)))

\* Domain(): the void node and the no-return node
NewDomain == GetOrCreate(GetOrCreate(<<>>, VoidType), NoReturn)

\* inspect.isclass, the two sentinel classes included
IsPyClass(dom, py_type) == IsClass(dom, py_type) \/ py_type \in {VoidType, NoReturn}

\* get_type_hints(func) once "return" is popped, or with it for __init__
Hints(func) ==
    SelectSeq(func.params, LAMBDA q : q.type # Untyped)
    \o (IF func.name = "__init__" /\ func.ret # NoReturnHint
        THEN <<P("return", func.ret)>> ELSE <<>>)

\* the py_type of the target node of a callable that is not a constructor
TargetOf(func) ==
    IF func.ret = NoReturnHint \/ func.ret = "None" THEN NoReturn
    ELSE Origin(func.ret)

\* step 4 of _analyze_callable: the edge is appended to source.outgoing and
\* to target.incoming
Attach(d, edge) ==
    LET d1 == [d EXCEPT ![NodeIndex(d, edge.source)].outgoing = Append(@, edge)]
    IN  [d1 EXCEPT ![NodeIndex(d1, edge.target)].incoming = Append(@, edge)]

\* params: name -> Node, for the hints
EdgeParams(hints) ==
    [i \in 1..Len(hints) |-> [name |-> hints[i].name, type |-> Origin(hints[i].type)]]

RECURSIVE _register_class(_, _, _, _)
RECURSIVE AnalyzeHints(_, _, _, _, _)
RECURSIVE ScanMembers(_, _, _, _, _, _)

\* if recursive and not node.scanned: if inspect.isclass(node.py_type):
\*     self._register_class(node.py_type, recursive)
Recurse(dom, d, py_type, recursive) ==
    IF recursive /\ ~NodeOf(d, py_type).scanned /\ IsPyClass(dom, py_type)
    THEN _register_class(dom, d, py_type, recursive)
    ELSE d

\* step 3 of _analyze_callable from the i-th hint on
AnalyzeHints(dom, d, hints, i, recursive) ==
    IF i > Len(hints) THEN d
    ELSE AnalyzeHints(dom,
             Recurse(dom, GetOrCreate(d, hints[i].type), Origin(hints[i].type),
                     recursive),
             hints, i + 1, recursive)

\* steps 3 and 4 of _analyze_callable, d being the nodes once the target has
\* its node
AnalyzeEdge(dom, d, func, edge, recursive) ==
    [d    |-> Attach(Recurse(dom,
                             AnalyzeHints(dom, d, Hints(func), 1, recursive),
                             edge.target, recursive),
                     edge),
     made |-> TRUE, target |-> edge.target]

NoEdge(d) == [d |-> d, made |-> FALSE, target |-> NoNode]

\* Domain._analyze_callable(func, owner, recursive); owner is NoNode for a
\* function.  The result is the nodes, whether an Edge is returned, and its
\* target.
_analyze_callable(dom, d, func, owner, recursive) ==
    IF ~func.hints_ok THEN NoEdge(d)
    ELSE IF func.name = "__init__"
    THEN IF owner = NoNode THEN NoEdge(d)
         ELSE AnalyzeEdge(dom, d, func,
                  Edge(NodeOf(d, owner).name, VoidType, owner,
                       EdgeParams(Hints(func))),
                  recursive)
    ELSE AnalyzeEdge(dom, GetOrCreate(d, TargetOf(func)), func,
             Edge(func.name, IF owner # NoNode THEN owner ELSE VoidType,
                  TargetOf(func), EdgeParams(Hints(func))),
             recursive)

\* the loop of _register_class over the members from the i-th on
ScanMembers(dom, d, members, i, owner, recursive) ==
    IF i > Len(members) THEN d
    ELSE ScanMembers(dom,
             IF CharAt(members[i].name, 1) = "_" /\ members[i].name # "__init__"
             THEN d
             ELSE _analyze_callable(dom, d, members[i], owner, recursive).d,
             members, i + 1, owner, recursive)

\* _register_class from "node.scanned = True" on
MarkAndScan(dom, d, cls, recursive) ==
    ScanMembers(dom, [d EXCEPT ![NodeIndex(d, cls)].scanned = TRUE],
                Members(dom, cls), 1, cls, recursive)

\* Domain._register_class(cls, recursive): the nodes it leaves
_register_class(dom, d, cls, recursive) ==
    IF NodeOf(GetOrCreate(d, cls), Origin(cls)).scanned
       \/ Origin(cls) \in DomainPrimitives
    THEN GetOrCreate(d, cls)
    ELSE MarkAndScan(dom, GetOrCreate(d, cls), Origin(cls), recursive)

\* Domain._register_function(func, recursive): the nodes it leaves and the
\* py_type of the node it returns
_register_function(dom, d, func, recursive) ==
    LET res == _analyze_callable(dom, d, func, NoNode, recursive)
    IN  [d |-> res.d, ret |-> IF res.made THEN res.target ELSE VoidType,
         raised |-> FALSE]

\* Domain.register(entity, recursive)
register(dom, d, entity, recursive) ==
    IF entity.kind = "class"
    THEN [d |-> _register_class(dom, d, entity.name, recursive),
          ret |-> Origin(entity.name), raised |-> FALSE]
    ELSE IF entity.kind = "function"
    THEN _register_function(dom, d, FunctionOf(dom, entity.name), recursive)
    ELSE [d |-> d, ret |-> NoNode, raised |-> TRUE]

\* Domain.get_node: whether self.nodes[origin] raises KeyError
HasNode(d, py_type) == Origin(py_type) \in NodeKeys(d)

\* edge in path
InPath(edge, path) == \E i \in 1..Len(path) : path[i] = edge

\* the queue entries the for loop over current.outgoing appends, the guard
\* on the edges of the path left out
ExpandUnguarded(d, current, path) ==
    [i \in 1..Len(NodeOf(d, current).outgoing) |->
        [current |-> NodeOf(d, current).outgoing[i].target,
         path    |-> Append(path, NodeOf(d, current).outgoing[i])]]

\* the queue entries the for loop over current.outgoing appends
Expand(d, current, path) ==
    LET fresh == SelectSeq(NodeOf(d, current).outgoing,
                           LAMBDA edge : ~InPath(edge, path))
    IN  [i \in 1..Len(fresh) |->
            [current |-> fresh[i].target, path |-> Append(path, fresh[i])]]

\* the while loop of get_paths
RECURSIVE Bfs(_, _, _, _, _)
Bfs(d, queue, results, end_node, max_depth) ==
    IF Len(queue) = 0 THEN results
    ELSE Bfs(d,
             Tail(queue)
             \o (IF Len(Head(queue).path) >= max_depth THEN <<>>
                 ELSE Expand(d, Head(queue).current, Head(queue).path)),
             IF Head(queue).current = end_node /\ Len(Head(queue).path) > 0
             THEN Append(results, Head(queue).path) ELSE results,
             end_node, max_depth)

\* Domain.get_paths(start, end, max_depth): the nodes it leaves and what it
\* returns or raises
get_paths(d, start, end, max_depth) ==
    IF ~HasNode(d, start) \/ ~HasNode(d, end)
    THEN [d |-> d, ret |-> <<>>, raised |-> TRUE]
    ELSE [d |-> d,
          ret |-> Bfs(d, <<[current |-> Origin(start), path |-> <<>>]>>, <<>>,
                      Origin(end), max_depth),
          raised |-> FALSE]

\* the deepest search that is asked for
MaxDepth == 3

\* the types a caller may name for a domain, one that has no node included
QueryTypes(dom) ==
    {VoidType, "int", "Missing"} \cup ClassNames(dom)

InitGraph ==
    /\ _backends = Registered
    /\ domain \in Domains
    /\ entrypoints = <<>>
    /\ pc = [at |-> "new", i |-> 0]
    /\ r_nodes = <<>>
    /\ r_queue = <<>>
    /\ nodes = <<>>
    /\ cache = <<>>
    /\ d_nodes = NewDomain
    /\ rules = <<>>
    /\ g_prev = <<>>
    /\ g_last = [op |-> "init"]
    /\ g_ret = None

\* dom.register(entity, recursive); pc.i counts the calls
DomainRegister(entity, recursive) ==
    /\ pc.i < MaxCalls
    /\ LET res == register(domain, d_nodes, entity, recursive)
       IN  /\ d_nodes' = res.d
           /\ g_ret' = [ret |-> res.ret, raised |-> res.raised]
    /\ g_prev' = d_nodes
    /\ g_last' = [op |-> "register", entity |-> entity, recursive |-> recursive]
    /\ pc' = [at |-> "registered", i |-> pc.i + 1]
    /\ UNCHANGED <<domain, entrypoints, r_nodes, r_queue, nodes, cache, rules,
                   _backends>>

\* dom.get_paths(start, end, max_depth)
GetPaths(start, end, max_depth) ==
    /\ LET res == get_paths(d_nodes, start, end, max_depth)
       IN  /\ d_nodes' = res.d
           /\ g_ret' = [ret |-> res.ret, raised |-> res.raised]
    /\ g_prev' = d_nodes
    /\ g_last' = [op |-> "get_paths", start |-> start, end |-> end,
                  max_depth |-> max_depth]
    /\ pc' = [pc EXCEPT !.at = "queried"]
    /\ UNCHANGED <<domain, entrypoints, r_nodes, r_queue, nodes, cache, rules,
                   _backends>>

NextGraph ==
    \/ \E entity \in Entries(domain), recursive \in BOOLEAN :
          DomainRegister(entity, recursive)
    \/ \E start \in QueryTypes(domain), end \in QueryTypes(domain),
          max_depth \in 0..MaxDepth :
          GetPaths(start, end, max_depth)

SpecGraph == InitGraph /\ [][NextGraph]_vars

\* the edges of the graph
Edges(d) ==
    UNION {{d[i].outgoing[j] : j \in 1..Len(d[i].outgoing)} : i \in 1..Len(d)}

\* the sequences of n connected edges from start in which no edge occurs
\* twice
RECURSIVE Walks(_, _, _)
Walks(d, start, n) ==
    IF n = 1 THEN {<<e>> : e \in {x \in Edges(d) : x.source = start}}
    ELSE UNION {{Append(p, e) : e \in {x \in Edges(d) :
                                          /\ x.source = p[Len(p)].target
                                          /\ ~InPath(x, p)}}
                : p \in Walks(d, start, n - 1)}

\* the paths of at most max_depth edges from start that end at end
PathsBetween(d, start, end, max_depth) ==
    UNION {{p \in Walks(d, start, n) : p[Len(p)].target = end}
           : n \in 1..max_depth}

Range(seq) == {seq[i] : i \in 1..Len(seq)}

\* C29: get_paths leaves the graph as it was; between two types that have
\* a node it returns exactly the paths of 1 to max_depth connected edges
\* from start to end in which no edge occurs twice, never the empty path;
\* it raises KeyError when a type has no node.
C29_PathsAreTheSimpleWalks ==
    g_last.op = "get_paths" =>
        /\ d_nodes = g_prev
        /\ g_ret.raised = (~HasNode(d_nodes, g_last.start)
                           \/ ~HasNode(d_nodes, g_last.end))
        /\ ~g_ret.raised =>
              /\ Range(g_ret.ret)
                 = PathsBetween(d_nodes, Origin(g_last.start),
                                Origin(g_last.end), g_last.max_depth)
              /\ <<>> \notin Range(g_ret.ret)

\* DataFrame is registered and the paths from DataFrame to itself are asked
\* for: filter, select, and the two orders of both
C29_Witness ==
    /\ g_last.op = "get_paths"
    /\ domain = Pandas
    /\ g_last.start = "DataFrame" /\ g_last.end = "DataFrame"
    /\ g_last.max_depth = 3
    /\ ~g_ret.raised
    /\ {[i \in 1..Len(p) |-> p[i].name] : p \in Range(g_ret.ret)}
       = {<<"filter">>, <<"select">>, <<"filter", "select">>,
          <<"select", "filter">>}

====
